---------------------------- MODULE Spec2Model ----------------------------
(***************************************************************************)
(* A model of the AFT device test harness: the DFU flashing driver of      *)
(* EdisonDevice, the mode-switch driver of PCDevice, the fleet health      *)
(* check (check_all_serial / check_all_parallel), the per-device check(),  *)
(* get_ip of both device classes, the serial recorder, the single-device   *)
(* pass of main() and the comparison of Device objects.  Every external    *)
(* collaborator (dfu-util, the power cutter, the lease file, ssh, the      *)
(* serial port, the reservation manager) is a nondeterministic choice over *)
(* the outcomes the calling code can observe: a return value or an         *)
(* exception.                                                              *)
(***************************************************************************)
EXTENDS Integers, Sequences, FiniteSets, TLC

VARIABLES
    \* ---- EdisonDevice (src/devices/edisondevice.py)
    epc,          \* position inside write_image / _flash_image / _dfu_call
    alt,          \* index in FlashSequence of the step being flashed (0: none yet)
    attempts,     \* the attempts parameter of the running _dfu_call
    attempt,      \* the local counter of _dfu_call
    status,       \* what polling the tool gave: "none", "zero", "nonzero", "timeout"
    invocations,  \* Popen calls of dfu-util made by the running _dfu_call
    kills,        \* execution.kill() calls made by the running _dfu_call
    cycles,       \* _reboot_device calls made by the running _dfu_call
    failedRuns,   \* tool runs of the running _dfu_call that did not exit with 0
    exhausted,    \* the step whose _dfu_call used up its budget (0: none)
    mounted,      \* the image file is mounted on _LOCAL_MOUNT_DIR
    eresult,      \* what write_image returned: "none" or "True"
    eerr,         \* the exception that left the Edison code: "none", ...
    enumerated,       \* _wait_for_device has seen the device in the current attempt
    \* ---- PCDevice (src/devices/pcdevice.py)
    mpc,          \* position inside _enter_mode
    mode,         \* the mode _enter_mode was asked for: "service" or "test"
    tries,        \* iterations of "for _ in range(attempts)" started so far
    polls,        \* iterations of the loop of _wait_for_responsive_ip so far
    powerCycles,  \* completed _power_cycle calls of this _enter_mode
    replays,      \* pem_main keystroke replays of this _enter_mode
    ip_address,   \* the local of _enter_mode: "None" or an address
    dev_ip,       \* self.dev_ip, the address get_ip cached last
    verifiedAt,   \* the iteration whose _verify_mode returned True (0: none)
    merr,         \* the exception that left _enter_mode: "none", ...
    \* ---- check_all (src/tools/device_configuration_checker.py)
    fpc,          \* position inside check_all_serial / check_all_parallel
    checkall,     \* args.checkall: "fast" (parallel) or "accurate" (serial)
    configs,      \* the device configs in the order the loops iterate them
    outcome,      \* per device, what check() does: "pass", "fail" or "raise"
    idx,          \* position of the running for loop in configs / threads
    threads,      \* per device, the state of its check_wrapper thread
    return_values,\* the shared Queue: <<check result, device>> items
    success,      \* the aggregate boolean
    result,       \* the report: the devices whose section was appended
    puts,         \* per device, queue.put calls of its worker
    ferr,         \* the exception that left check_all: "none", ...
    \* ---- check (src/tools/device_configuration_checker.py)
    cpc,              \* position inside check() and the functions it calls
    hasDevice,        \* args.device is set
    nopoweroff,       \* args.nopoweroff
    record,           \* args.record
    model,            \* device.model.lower(): "edison" or another model
    reserved,         \* manager.reserve_specific has returned the device
    poweron_status,   \* the locals of _run_sanity_tests: <<Boolean, message>>
    connection_status,
    poweroff_status,
    serial_status,
    sanity_results,   \* "unset" or <<Boolean, report>>
    image_test_results, \* "unset" or <<Boolean, message>>
    exc,              \* the exception in flight inside check(): "none", ...
    wst,              \* the known-good-image worker process: "none", "running", ...
    results_queue,    \* the multiprocessing queue of the worker
    probes,           \* the probes called so far, in call order
    raisedBy,         \* per probe, how its call ended ("none": not called)
    interrupted,      \* where a KeyboardInterrupt was raised ("none": nowhere)
    events,           \* the image step entered and the detach, release, blacklist calls made
    flashed,          \* the worker has called device.write_image
    cresult,          \* what check() returned: "none" or <<Boolean, report>>
    \* ---- get_ip (src/devices/pcdevice.py, src/devices/edisondevice.py)
    gpc,              \* position inside get_ip
    variant,          \* the class of the device: "pc" or "edison"
    leases,           \* the lines of the leases file, each a tuple of fields
    reachable,        \* the targets that answer the SSH probe right now
    ip_addresses,     \* the local of PCDevice.get_ip
    gi,               \* position of "for ip_address in ip_addresses"
    self_dev_ip,      \* self.dev_ip of the device get_ip is called on
    probed,           \* the targets probed by the running call, in order
    probedOk,         \* the targets that passed the probe in the running call
    gret,             \* what the call returned: "unset", "None" or a target
    \* ---- serial recorder (src/tools/serialrecorder.py)
    rpc,              \* position inside record()
    stream,           \* the bytes the port has not delivered yet
    bytes_read,       \* all bytes serial_stream.read has returned so far
    read_buffer,      \* the local of record()
    last_newline,     \* the local of record(): index of the last "\n", 0 if none
    text_batch,       \* the local of record(), after the escapes were removed
    output,           \* what has been written to the output file
    taken,            \* all text batches cut out of read_buffer so far
    TERMINATE_FLAG,   \* the global set by signal_handler
    signal_at_end,    \* the signal arrived after all input had been read
    errnum,           \* err.num of the SerialException being handled, 0: none
    reopened,         \* the last iteration closed and reopened the port
    \* ---- main (src/main.py)
    npc,              \* position inside main()
    argv,             \* the argument of main(): "None" or "given"
    sys_argv,         \* sys.argv: "original" or "given"
    noflash,          \* args.noflash
    notest,           \* args.notest
    main_nopoweroff,  \* args.nopoweroff of main()
    main_device,      \* the local device of main(): "unset" or "reserved"
    main_calls,       \* the calls main() made on device and tester that returned
    nerr,             \* the exception that left main(): "none", ...
    \* ---- Device (src/device.py)
    objs,             \* the Device objects, each with its attributes
    qa,               \* the objects of the last comparison (0: none yet)
    qb,
    eq_result,        \* what objs[qa] == objs[qb] gave
    ne_result,        \* what objs[qa] != objs[qb] gave
    \* ---- PCDevice.write_image (src/devices/pcdevice.py)
    wpc,              \* position inside write_image
    uses_hddimg,      \* self._uses_hddimg (FALSE also stands for None)
    wi,               \* the next command of the function write_image is in
    remote,           \* the commands ssh.remote_execute was called with
    mounts,           \* the filesystems mounted on the device by the key step
    werr,             \* the exception that left write_image: "none", ...
    \* ---- EdisonDevice._recovery_flash (src/devices/edisondevice.py)
    xpc,              \* position inside _recovery_flash
    rec_attempts,     \* the local counter attempts of _recovery_flash
    rec_calls,        \* runs of xfstk-dldr-solo so far
    rec_status,       \* what the last run returned: "none", "zero", "nonzero"
    rec_reboots,      \* calls of _reboot_device that returned
    rec_sleep,        \* seconds of the last time.sleep(random.randint(10, 30))
    xerr,             \* how _recovery_flash ended the process: "none", ...
    \* ---- _get_device_args (src/tools/device_configuration_checker.py)
    apc,              \* position inside the loop "for dev_config in configs"
    heap,             \* the args objects: heap[1] is the args of the caller
    caller_args,      \* the fields of the caller's args when the scan started
    dev_configs,      \* configs: the devices, in the order of the scan
    with_port,        \* the devices whose settings declare "serial_port"
    ai,               \* the index of the current dev_config
    device_args,      \* the local device_args: a reference into heap, 0: none
    thread_args,      \* the reference each started thread was given
    seen              \* what check() of each thread read from its args

evars == <<epc, alt, attempts, attempt, status, invocations, kills, cycles,
           failedRuns, exhausted, mounted, eresult, eerr, enumerated>>

mvars == <<mpc, mode, tries, polls, powerCycles, replays, ip_address, dev_ip,
           verifiedAt, merr>>

fvars == <<fpc, checkall, configs, outcome, idx, threads, return_values,
           success, result, puts, ferr>>

cvars == <<cpc, hasDevice, nopoweroff, record, model, reserved, poweron_status,
           connection_status, poweroff_status, serial_status, sanity_results,
           image_test_results, exc, wst, results_queue, probes, raisedBy,
           interrupted, events, flashed, cresult>>

gvars == <<gpc, variant, leases, reachable, ip_addresses, gi, self_dev_ip,
           probed, probedOk, gret>>

rvars == <<rpc, stream, bytes_read, read_buffer, last_newline, text_batch, output, taken,
           TERMINATE_FLAG, signal_at_end, errnum, reopened>>

nvars == <<npc, argv, sys_argv, noflash, notest, main_nopoweroff, main_device,
           main_calls, nerr>>

qvars == <<objs, qa, qb, eq_result, ne_result>>

wvars == <<wpc, uses_hddimg, wi, remote, mounts, werr>>

xvars == <<xpc, rec_attempts, rec_calls, rec_status, rec_reboots, rec_sleep, xerr>>

avars == <<apc, heap, caller_args, dev_configs, with_port, ai, device_args,
           thread_args, seen>>

vars == <<evars, mvars, fvars, cvars, gvars, rvars, nvars, qvars, wvars, xvars, avars>>

\* a step of the Edison code leaves everything else alone, and so on
EdisonOnly == UNCHANGED <<mvars, fvars, cvars, gvars, rvars, nvars, qvars, wvars, xvars, avars>>
PcOnly == UNCHANGED <<evars, fvars, cvars, gvars, rvars, nvars, qvars, wvars, xvars, avars>>
FleetOnly == UNCHANGED <<evars, mvars, cvars, gvars, rvars, nvars, qvars, wvars, xvars, avars>>
CheckOnly == UNCHANGED <<evars, mvars, fvars, gvars, rvars, nvars, qvars, wvars, xvars, avars>>
GetIpOnly == UNCHANGED <<evars, mvars, fvars, cvars, rvars, nvars, qvars, wvars, xvars, avars>>
RecorderOnly == UNCHANGED <<evars, mvars, fvars, cvars, gvars, nvars, qvars, wvars, xvars, avars>>
MainOnly == UNCHANGED <<evars, mvars, fvars, cvars, gvars, rvars, qvars, wvars, xvars, avars>>
DeviceOnly == UNCHANGED <<evars, mvars, fvars, cvars, gvars, rvars, nvars, wvars, xvars, avars>>
WriteImageOnly == UNCHANGED <<evars, mvars, fvars, cvars, gvars, rvars, nvars, qvars, xvars, avars>>
RecoveryOnly == UNCHANGED <<evars, mvars, fvars, cvars, gvars, rvars, nvars, qvars, wvars, avars>>
ArgsOnly == UNCHANGED <<evars, mvars, fvars, cvars, gvars, rvars, nvars, qvars, wvars, xvars>>

-----------------------------------------------------------------------------
(* Bounds of the model *)

\* the largest attempt budget a single _dfu_call is tried with
MaxBudget == 5

\* the number of devices of the topology
NumDevices == 3

\* the largest number of lines of the leases file
MaxLeases == 2

\* the largest number of bytes the serial port delivers
MaxInput == 4

\* the number of Device objects that are compared with each other
NumObjects == 3

-----------------------------------------------------------------------------
(* EdisonDevice *)

\* attempts=4, the default of _dfu_call
DefaultAttempts == 4

\* range(0, 7) of _flash_image: the IFWI sub-images
IfwiCount == 7

\* The DFU targets in the order _flash_image flashes them: <<alt name, index>>.
FlashSequence ==
    LET Ifwi(n) == IF n % 2 = 1 THEN <<"ifwi0", (n - 1) \div 2>>
                                ELSE <<"ifwib0", (n - 2) \div 2>>
    IN  [n \in 1..(2 * IfwiCount) |-> Ifwi(n)]
        \o << <<"u-boot0", 0>>, <<"u-boot-env0", 0>>, <<"u-boot-env1", 0>>,
              <<"boot", 0>>, <<"update", 0>>, <<"rootfs", 0>> >>

\* the step after which _flash_image waits for the device to re-enumerate
WaitAfter == CHOOSE n \in 1..Len(FlashSequence) : FlashSequence[n][1] = "u-boot-env1"

\* the outcomes of one dfu-util run as the polling loop sees them
ToolOutcomes == {"zero", "nonzero", "timeout"}

\* no write_image is running
EdisonIdle ==
    /\ epc = "idle" /\ alt = 0 /\ attempts = 0 /\ attempt = 0 /\ status = "none"
    /\ invocations = 0 /\ kills = 0 /\ cycles = 0 /\ failedRuns = 0
    /\ exhausted = 0 /\ mounted = FALSE /\ eresult = "none" /\ eerr = "none"
    /\ enumerated = FALSE

\* no _enter_mode is running
PcIdle ==
    /\ mpc = "idle" /\ mode = "service" /\ tries = 0 /\ polls = 0
    /\ powerCycles = 0 /\ replays = 0 /\ ip_address = "None" /\ dev_ip = "None"
    /\ verifiedAt = 0 /\ merr = "none"

\* no fleet scan is running
FleetIdle ==
    /\ fpc = "idle" /\ checkall = "accurate" /\ configs = <<>>
    /\ outcome = <<>> /\ idx = 0 /\ threads = <<>> /\ return_values = <<>>
    /\ success = TRUE /\ result = <<>> /\ puts = <<>> /\ ferr = "none"

\* the probes of _run_sanity_tests in the order of their try blocks
ProbeOrder == <<"poweron", "connection", "poweroff">>

\* poweron_status = (True, "Ok") and so on, at the top of _run_sanity_tests
DefaultStatus == <<TRUE, "Ok">>

\* no check() is running
CheckIdle ==
    /\ cpc = "idle" /\ hasDevice = TRUE /\ nopoweroff = FALSE /\ record = FALSE
    /\ model = "pc" /\ reserved = FALSE
    /\ poweron_status = DefaultStatus /\ connection_status = DefaultStatus
    /\ poweroff_status = DefaultStatus /\ serial_status = DefaultStatus
    /\ sanity_results = "unset" /\ image_test_results = "unset"
    /\ exc = "none" /\ wst = "none" /\ results_queue = <<>>
    /\ probes = <<>> /\ raisedBy = [p \in {"poweron", "connection", "poweroff"} |-> "none"]
    /\ interrupted = "none" /\ events = <<>> /\ flashed = FALSE
    /\ cresult = "none"

\* no get_ip is running
GetIpIdle ==
    /\ gpc = "idle" /\ variant = "pc" /\ leases = <<>> /\ reachable = {}
    /\ ip_addresses = <<>> /\ gi = 0 /\ self_dev_ip = "None"
    /\ probed = <<>> /\ probedOk = {} /\ gret = "unset"

\* no recorder is running
RecorderIdle ==
    /\ rpc = "idle" /\ stream = <<>> /\ bytes_read = <<>> /\ read_buffer = <<>>
    /\ last_newline = 0 /\ text_batch = <<>> /\ output = <<>> /\ taken = <<>>
    /\ TERMINATE_FLAG = FALSE /\ signal_at_end = FALSE
    /\ errnum = 0 /\ reopened = FALSE

\* no main() is running
MainIdle ==
    /\ npc = "idle" /\ argv = "None" /\ sys_argv = "original"
    /\ noflash = FALSE /\ notest = FALSE /\ main_nopoweroff = FALSE
    /\ main_device = "unset" /\ main_calls = <<>> /\ nerr = "none"

\* no Device objects are being compared
DeviceIdle ==
    /\ objs = <<>> /\ qa = 0 /\ qb = 0 /\ eq_result = FALSE /\ ne_result = FALSE

\* no write_image of a PC device is running
WriteImageIdle ==
    /\ wpc = "idle" /\ uses_hddimg = FALSE /\ wi = 0 /\ remote = <<>>
    /\ mounts = {} /\ werr = "none"

\* no _recovery_flash is running
RecoveryIdle ==
    /\ xpc = "idle" /\ rec_attempts = 0 /\ rec_calls = 0 /\ rec_status = "none"
    /\ rec_reboots = 0 /\ rec_sleep = 0 /\ xerr = "none"

\* no scan builds per-device arguments
ArgsIdle ==
    /\ apc = "idle" /\ heap = <<>> /\ caller_args = [device |-> 0, record |-> FALSE]
    /\ dev_configs = <<>> /\ with_port = {} /\ ai = 0 /\ device_args = 0
    /\ thread_args = <<>> /\ seen = <<>>

\* an exception leaves the Edison code
ERaise(e) == epc' = "raised" /\ eerr' = e

\* _dfu_call is entered for step n with budget b
EnterDfuCall(n, b) ==
    /\ alt' = n /\ attempts' = b /\ attempt' = 0 /\ status' = "none"
    /\ invocations' = 0 /\ kills' = 0 /\ cycles' = 0 /\ failedRuns' = 0
    /\ epc' = "dfu_while"

\* while attempt < attempts
DfuLoopContinuesOffByOne(a, n) == a <= n
DfuLoopContinues(a, n) == a < n

\* where control is after raise IOError("Flashing failed 4 times..."): no
\* caller in _flash_image or write_image catches it
DfuGiveUp == "raised"

\* the loop test; after the loop: raise IOError("Flashing failed 4 times...")
DfuWhile ==
    /\ epc = "dfu_while"
    /\ EdisonOnly
    /\ enumerated' = FALSE
    /\ IF DfuLoopContinues(attempt, attempts)
       THEN epc' = "dfu_wait" /\ UNCHANGED <<eerr, exhausted>>
       ELSE epc' = DfuGiveUp /\ eerr' = "IOError" /\ exhausted' = alt
    /\ UNCHANGED <<alt, attempts, attempt, status, invocations, kills, cycles,
                   failedRuns, mounted, eresult>>

\* _wait_for_device returns when a line of "dfu-util -l" names the USB path
\* of the device, and raises IOError when none did within the timeout
WaitReturnsAlways(found) == TRUE
WaitReturns(found) == found

\* self._wait_for_device(): the device enumerates on its USB path, or IOError
DfuWaitForDevice ==
    /\ epc = "dfu_wait"
    /\ EdisonOnly
    /\ \E found \in BOOLEAN :
          /\ enumerated' = found
          /\ IF WaitReturns(found) THEN epc' = "dfu_popen" /\ UNCHANGED eerr
                                   ELSE ERaise("IOError")
    /\ UNCHANGED <<alt, attempts, attempt, status, invocations, kills, cycles,
                   failedRuns, exhausted, mounted, eresult>>

\* the polling loop: any exit status returns from _dfu_call
DfuPolledReturns(s) == s # "timeout"

\* Popen(dfu-util ...) and the polling loop under the wall-clock timeout
DfuInvoke ==
    /\ epc = "dfu_popen"
    /\ EdisonOnly
    /\ UNCHANGED enumerated
    /\ \E s \in ToolOutcomes :
          /\ status' = s
          /\ invocations' = invocations + 1
          /\ failedRuns' = IF s = "zero" THEN failedRuns ELSE failedRuns + 1
          /\ epc' = IF DfuPolledReturns(s) THEN "dfu_returned" ELSE "dfu_kill"
    /\ UNCHANGED <<alt, attempts, attempt, kills, cycles, exhausted, mounted,
                   eresult, eerr>>

\* execution.kill() (errno 3 is swallowed, any other OSError is re-raised),
\* then attempt += 1
DfuKill ==
    /\ epc = "dfu_kill"
    /\ EdisonOnly
    /\ UNCHANGED enumerated
    /\ kills' = kills + 1
    /\ \E killed \in BOOLEAN :
          IF killed
          THEN attempt' = attempt + 1 /\ epc' = "dfu_reboot" /\ UNCHANGED eerr
          ELSE ERaise("OSError") /\ UNCHANGED attempt
    /\ UNCHANGED <<alt, attempts, status, invocations, cycles, failedRuns,
                   exhausted, mounted, eresult>>

\* self._reboot_device() at the end of a failed attempt: disconnect, sleep,
\* connect; the cutter's check_call raises CalledProcessError when it fails
DfuReboot ==
    /\ epc = "dfu_reboot"
    /\ EdisonOnly
    /\ UNCHANGED enumerated
    /\ \E ok \in BOOLEAN :
          IF ok THEN /\ cycles' = cycles + 1 /\ epc' = "dfu_while"
                     /\ UNCHANGED eerr
                ELSE ERaise("CalledProcessError") /\ UNCHANGED cycles
    /\ UNCHANGED <<alt, attempts, attempt, status, invocations, kills,
                   failedRuns, exhausted, mounted, eresult>>

DfuCall == DfuWhile \/ DfuWaitForDevice \/ DfuInvoke \/ DfuKill \/ DfuReboot

\* one _dfu_call on its own, for any target and any budget
InitDfu ==
    /\ \E n \in 1..Len(FlashSequence), b \in 1..MaxBudget :
          /\ alt = n /\ attempts = b
    /\ epc = "dfu_while" /\ attempt = 0 /\ status = "none"
    /\ invocations = 0 /\ kills = 0 /\ cycles = 0 /\ failedRuns = 0
    /\ exhausted = 0 /\ mounted = FALSE /\ eresult = "none" /\ eerr = "none"
    /\ enumerated = FALSE
    /\ PcIdle /\ FleetIdle /\ CheckIdle /\ GetIpIdle /\ RecorderIdle /\ MainIdle /\ DeviceIdle /\ WriteImageIdle /\ RecoveryIdle /\ ArgsIdle

NextDfu == DfuCall

SpecDfu == InitDfu /\ [][NextDfu]_vars

-----------------------------------------------------------------------------
(* EdisonDevice.write_image and _flash_image *)

\* _mount_local: a failing mount ends the process (_log_subprocess32_error)
MountLocal ==
    /\ epc = "mount"
    /\ EdisonOnly
    /\ UNCHANGED enumerated
    /\ \E ok \in BOOLEAN :
          IF ok THEN mounted' = TRUE /\ epc' = "usbnet" /\ UNCHANGED eerr
                ELSE epc' = "exited" /\ eerr' = "SystemExit" /\ UNCHANGED mounted
    /\ UNCHANGED <<alt, attempts, attempt, status, invocations, kills, cycles,
                   failedRuns, exhausted, eresult>>

\* _add_usb_networking: file copies and edits below the mount point; an
\* OSError or IOError of one of them leaves write_image
AddUsbNetworking ==
    /\ epc = "usbnet"
    /\ EdisonOnly
    /\ UNCHANGED enumerated
    /\ \E ok \in BOOLEAN :
          IF ok THEN epc' = "sshkey" /\ UNCHANGED eerr ELSE ERaise("OSError")
    /\ UNCHANGED <<alt, attempts, attempt, status, invocations, kills, cycles,
                   failedRuns, exhausted, mounted, eresult>>

\* _add_ssh_key
AddSshKey ==
    /\ epc = "sshkey"
    /\ EdisonOnly
    /\ UNCHANGED enumerated
    /\ \E ok \in BOOLEAN :
          IF ok THEN epc' = "unmount" /\ UNCHANGED eerr ELSE ERaise("OSError")
    /\ UNCHANGED <<alt, attempts, attempt, status, invocations, kills, cycles,
                   failedRuns, exhausted, mounted, eresult>>

\* write_image with the call of line 100 in place: _recovery_flash, and with
\* it the recovery loader tool, runs right after the unmount
UnmountLocalThenRecovery ==
    /\ epc = "unmount"
    /\ UNCHANGED <<mvars, fvars, cvars, gvars, rvars, nvars, qvars, wvars, avars>>
    /\ UNCHANGED enumerated
    /\ \E ok \in BOOLEAN :
          IF ok THEN /\ mounted' = FALSE /\ epc' = "flash_reboot"
                     /\ rec_calls' = rec_calls + 1 /\ UNCHANGED eerr
                ELSE /\ epc' = "exited" /\ eerr' = "SystemExit"
                     /\ UNCHANGED <<mounted, rec_calls>>
    /\ UNCHANGED <<alt, attempts, attempt, status, invocations, kills, cycles,
                   failedRuns, exhausted, eresult>>
    /\ UNCHANGED <<xpc, rec_attempts, rec_status, rec_reboots, rec_sleep, xerr>>

\* _unmount_local: sync and umount; a failing one ends the process
UnmountLocal ==
    /\ epc = "unmount"
    /\ EdisonOnly
    /\ UNCHANGED enumerated
    /\ \E ok \in BOOLEAN :
          IF ok THEN mounted' = FALSE /\ epc' = "flash_reboot" /\ UNCHANGED eerr
                ELSE epc' = "exited" /\ eerr' = "SystemExit" /\ UNCHANGED mounted
    /\ UNCHANGED <<alt, attempts, attempt, status, invocations, kills, cycles,
                   failedRuns, exhausted, eresult>>

\* _flash_image starts with self._reboot_device(), then flashes ifwi00
FlashReboot ==
    /\ epc = "flash_reboot"
    /\ EdisonOnly
    /\ UNCHANGED enumerated
    /\ \E ok \in BOOLEAN :
          IF ok THEN EnterDfuCall(1, DefaultAttempts) /\ UNCHANGED eerr
                ELSE /\ ERaise("CalledProcessError")
                     /\ UNCHANGED <<alt, attempts, attempt, status, invocations,
                                    kills, cycles, failedRuns>>
    /\ UNCHANGED <<exhausted, mounted, eresult>>

\* a _dfu_call has returned: _flash_image goes on with its next statement
FlashContinue ==
    /\ epc = "dfu_returned"
    /\ EdisonOnly
    /\ UNCHANGED enumerated
    /\ IF alt = Len(FlashSequence)
       THEN /\ eresult' = "True" /\ epc' = "done"
            /\ UNCHANGED <<alt, attempts, attempt, status, invocations, kills,
                           cycles, failedRuns>>
       ELSE IF alt = WaitAfter
       THEN /\ epc' = "flash_wait"
            /\ UNCHANGED <<alt, attempts, attempt, status, invocations, kills,
                           cycles, failedRuns, eresult>>
       ELSE EnterDfuCall(alt + 1, DefaultAttempts) /\ UNCHANGED eresult
    /\ UNCHANGED <<exhausted, mounted, eerr>>

\* self._wait_for_device() between u-boot-env1 and boot
FlashWaitForDevice ==
    /\ epc = "flash_wait"
    /\ EdisonOnly
    /\ \E found \in BOOLEAN :
          /\ enumerated' = found
          /\ IF WaitReturns(found) THEN EnterDfuCall(alt + 1, DefaultAttempts) /\ UNCHANGED eerr
                   ELSE /\ ERaise("IOError")
                        /\ UNCHANGED <<alt, attempts, attempt, status,
                                       invocations, kills, cycles, failedRuns>>
    /\ UNCHANGED <<exhausted, mounted, eresult>>

InitFlash ==
    /\ epc = "mount" /\ alt = 0 /\ attempts = 0 /\ attempt = 0 /\ status = "none"
    /\ invocations = 0 /\ kills = 0 /\ cycles = 0 /\ failedRuns = 0
    /\ exhausted = 0 /\ mounted = FALSE /\ eresult = "none" /\ eerr = "none"
    /\ enumerated = FALSE
    /\ PcIdle /\ FleetIdle /\ CheckIdle /\ GetIpIdle /\ RecorderIdle /\ MainIdle /\ DeviceIdle /\ WriteImageIdle /\ RecoveryIdle /\ ArgsIdle

NextFlash ==
    \/ MountLocal \/ AddUsbNetworking \/ AddSshKey \/ UnmountLocal
    \/ FlashReboot \/ DfuCall \/ FlashContinue \/ FlashWaitForDevice

SpecFlash == InitFlash /\ [][NextFlash]_vars

-----------------------------------------------------------------------------
(* EdisonDevice._recovery_flash *)

\* "attempts < 10" of the while condition
RecoveryAttempts == 10

\* random.randint(10, 30)
SleepSeconds == 10..30

\* what subprocess32.call(xfstk_parameters) can do: return 0, return another
\* status, or raise OSError (the tool is not installed)
LoaderOutcomes == {"zero", "nonzero", "OSError"}

\* the right operand of "while subprocess32.call(...) and attempts < 10"
RecoveryLoopContinues(a) == a < RecoveryAttempts

\* both except clauses end the process: sys.exit(1)
RecoveryExit == xpc' = "exited" /\ xerr' = "SystemExit"

\* line 258: self._reboot_device() before the loop
RecoveryReboot ==
    /\ xpc = "reboot"
    /\ RecoveryOnly
    /\ \E ok \in BOOLEAN :
          IF ok THEN /\ rec_reboots' = rec_reboots + 1 /\ xpc' = "call"
                     /\ UNCHANGED xerr
                ELSE RecoveryExit /\ UNCHANGED rec_reboots
    /\ UNCHANGED <<rec_attempts, rec_calls, rec_status, rec_sleep>>

\* line 259: the while condition runs the loader tool, and looks at the
\* counter only when the tool failed
RecoveryCall ==
    /\ xpc = "call"
    /\ RecoveryOnly
    /\ rec_calls' = rec_calls + 1
    /\ \E r \in LoaderOutcomes :
          CASE r = "OSError" -> RecoveryExit /\ UNCHANGED rec_status
            [] r = "zero" ->
                  /\ rec_status' = r /\ xpc' = "returned" /\ UNCHANGED xerr
            [] OTHER ->
                  /\ rec_status' = r
                  /\ xpc' = IF RecoveryLoopContinues(rec_attempts)
                            THEN "retry" ELSE "returned"
                  /\ UNCHANGED xerr
    /\ UNCHANGED <<rec_attempts, rec_reboots, rec_sleep>>

\* lines 260-264: the loop body: reboot, random sleep, attempts += 1
RecoveryRetry ==
    /\ xpc = "retry"
    /\ RecoveryOnly
    /\ \E ok \in BOOLEAN :
          IF ok THEN /\ rec_reboots' = rec_reboots + 1
                     /\ \E t \in SleepSeconds : rec_sleep' = t
                     /\ rec_attempts' = rec_attempts + 1
                     /\ xpc' = "call"
                     /\ UNCHANGED xerr
                ELSE /\ RecoveryExit
                     /\ UNCHANGED <<rec_reboots, rec_sleep, rec_attempts>>
    /\ UNCHANGED <<rec_calls, rec_status>>

InitRecovery ==
    /\ xpc = "reboot" /\ rec_attempts = 0 /\ rec_calls = 0 /\ rec_status = "none"
    /\ rec_reboots = 0 /\ rec_sleep = 0 /\ xerr = "none"
    /\ EdisonIdle /\ PcIdle /\ FleetIdle /\ CheckIdle /\ GetIpIdle /\ RecorderIdle /\ MainIdle /\ DeviceIdle /\ WriteImageIdle /\ ArgsIdle

NextRecovery == RecoveryReboot \/ RecoveryCall \/ RecoveryRetry

SpecRecovery == InitRecovery /\ [][NextRecovery]_vars

-----------------------------------------------------------------------------
(* PCDevice._enter_mode *)

\* attempts = 8 of _enter_mode
EnterModeAttempts == 8

\* _BOOT_TIMEOUT and _POLLING_INTERVAL
BootTimeout == 240
PollingInterval == 10

\* the addresses a lease record of the device can name
Addresses == {"ip1", "ip2"}

\* an exception leaves _enter_mode
MRaise(e) == mpc' = "raised" /\ merr' = e

\* range(attempts)
EnterModeLoopContinues(n) == n < EnterModeAttempts

\* for _ in range(attempts); after the loop: raise LookupError
EnterModeFor ==
    /\ mpc = "for"
    /\ PcOnly
    /\ IF EnterModeLoopContinues(tries)
       THEN tries' = tries + 1 /\ mpc' = "power_cycle" /\ UNCHANGED merr
       ELSE MRaise("LookupError") /\ UNCHANGED tries
    /\ UNCHANGED <<mode, polls, powerCycles, replays, ip_address, dev_ip,
                   verifiedAt>>

\* self._power_cycle(): detach, sleep, attach; the cutter's check_call
\* raises CalledProcessError when the relay command fails
PowerCycle ==
    /\ mpc = "power_cycle"
    /\ PcOnly
    /\ \E ok \in BOOLEAN :
          IF ok THEN /\ powerCycles' = powerCycles + 1 /\ mpc' = "pem"
                     /\ UNCHANGED merr
                ELSE MRaise("CalledProcessError") /\ UNCHANGED powerCycles
    /\ UNCHANGED <<mode, tries, polls, replays, ip_address, dev_ip, verifiedAt>>

\* pem_main([... "--playback", mode["sequence"]]), then
\* _wait_for_responsive_ip is entered
PemPlayback ==
    /\ mpc = "pem"
    /\ PcOnly
    /\ replays' = replays + 1
    /\ polls' = 0
    /\ mpc' = "poll"
    /\ UNCHANGED <<mode, tries, powerCycles, ip_address, dev_ip, verifiedAt, merr>>

\* what one get_ip() call can give: no address, an address that answered the
\* ssh probe, or the IOError of opening the lease file
GetIpOutcomes == {"None", "IOError"} \cup Addresses

\* for _ in range(self._BOOT_TIMEOUT / self._POLLING_INTERVAL)
PollsLeftOffByOne(n) == n <= BootTimeout \div PollingInterval
PollsLeft(n) == n < BootTimeout \div PollingInterval

\* get_ip: "self.dev_ip = ip_address" for the address that answered
CachedIpKeepsFirst(old, r) == IF old = "None" THEN r ELSE old
CachedIp(old, r) == r

\* one iteration of the loop of _wait_for_responsive_ip (get_ip, then sleep
\* or return); after the last one the function returns None and _enter_mode
\* logs the failed attempt
WaitForResponsiveIp ==
    /\ mpc = "poll"
    /\ PcOnly
    /\ IF PollsLeft(polls)
       THEN \E r \in GetIpOutcomes :
               CASE r = "IOError" ->
                       /\ MRaise("IOError")
                       /\ UNCHANGED <<polls, ip_address, dev_ip>>
                 [] r = "None" ->
                       /\ polls' = polls + 1
                       /\ UNCHANGED <<mpc, merr, ip_address, dev_ip>>
                 [] OTHER ->
                       /\ polls' = polls + 1
                       /\ dev_ip' = CachedIp(dev_ip, r) /\ ip_address' = r
                       /\ mpc' = "verify" /\ UNCHANGED merr
       ELSE /\ ip_address' = "None" /\ mpc' = "for"
            /\ UNCHANGED <<polls, dev_ip, merr>>
    /\ UNCHANGED <<mode, tries, powerCycles, replays, verifiedAt>>

\* _verify_mode: cat /proc/version over ssh names the mode, names another
\* one, or the remote command raises
VerifyOutcomes == {"in_mode", "other_mode", "error"}

\* if self._verify_mode(ip_address, mode["name"]): return
VerifyMode ==
    /\ mpc = "verify"
    /\ PcOnly
    /\ \E v \in VerifyOutcomes :
          CASE v = "in_mode" ->
                  /\ verifiedAt' = tries /\ mpc' = "returned" /\ UNCHANGED merr
            [] v = "other_mode" ->
                  /\ mpc' = "for" /\ UNCHANGED <<verifiedAt, merr>>
            [] OTHER ->
                  /\ MRaise("AFTConnectionError") /\ UNCHANGED verifiedAt
    /\ UNCHANGED <<mode, tries, polls, powerCycles, replays, ip_address, dev_ip>>

EnterMode ==
    EnterModeFor \/ PowerCycle \/ PemPlayback \/ WaitForResponsiveIp \/ VerifyMode

\* _enter_mode is called with the service mode (write_image) or the test
\* mode (test); dev_ip is None after construction or cached by an earlier call
InitEnterMode ==
    /\ mode \in {"service", "test"}
    /\ dev_ip \in {"None"} \cup Addresses
    /\ mpc = "for" /\ tries = 0 /\ polls = 0 /\ powerCycles = 0 /\ replays = 0
    /\ ip_address = "None" /\ verifiedAt = 0 /\ merr = "none"
    /\ EdisonIdle /\ FleetIdle /\ CheckIdle /\ GetIpIdle /\ RecorderIdle /\ MainIdle /\ DeviceIdle /\ WriteImageIdle /\ RecoveryIdle /\ ArgsIdle

SpecEnterMode == InitEnterMode /\ [][EnterMode]_vars

-----------------------------------------------------------------------------
(* PCDevice.write_image, _flash_image and _install_tester_public_key *)

\* the remote commands of _flash_image, in the order of its statements
FlashCommandsCopyFirst ==
    <<"bmaptool copy", "mount nfs", "partprobe", "sync", "udevadm trigger",
      "udevadm settle", "udevadm control -S">>
FlashCommands ==
    <<"mount nfs", "bmaptool copy", "partprobe", "sync", "udevadm trigger",
      "udevadm settle", "udevadm control -S">>

\* the remote commands of _mount_single_layer and of _mount_two_layers, each
\* with the mount point it mounts a filesystem on
SingleLayer == << <<"mount root_partition", "target_root">> >>
TwoLayers ==
    << <<"modprobe vfat", "none">>,
       <<"mount target_device", "super_target_root">>,
       <<"mount rootfs", "target_root">> >>

\* the remote commands of _install_tester_public_key between the mounts and
\* the umount; setfattr only "if not self._uses_hddimg"
KeyCommands(hddimg) ==
    <<"cat passwd", "mkdir .ssh", "chmod 700", "cat authorized_keys",
      "chmod 600">>
    \o (IF hddimg THEN <<>> ELSE <<"setfattr security.ima">>)
    \o <<"sync">>

\* the last remote command: umount self._ROOT_PARTITION_MOUNT_POINT
UmountCommand == <<"umount", "target_root">>

\* an exception leaves write_image
WRaise(e) == wpc' = "raised" /\ werr' = e

\* self._enter_mode(self._service_mode) has returned, not raised
WriteImageProceeds(m) == m = "returned"

\* line 102: after _enter_mode, write_image goes on with _flash_image; an
\* exception of _enter_mode leaves write_image
WriteImageEnterMode ==
    /\ wpc = "enter_mode"
    /\ mpc \in {"returned", "raised"}
    /\ WriteImageOnly
    /\ IF WriteImageProceeds(mpc)
       THEN wpc' = "flash" /\ wi' = 1 /\ UNCHANGED werr
       ELSE WRaise(merr) /\ UNCHANGED wi
    /\ UNCHANGED <<uses_hddimg, remote, mounts>>

\* _flash_image: one ssh.remote_execute per step; a command that fails
\* raises (exit status 32 of the nfs mount is ignored)
FlashImage ==
    /\ wpc = "flash"
    /\ WriteImageOnly
    /\ remote' = Append(remote, FlashCommands[wi])
    /\ \E ok \in BOOLEAN :
          IF ok
          THEN /\ IF wi = Len(FlashCommands)
                  THEN wpc' = "mount" /\ wi' = 1
                  ELSE wi' = wi + 1 /\ UNCHANGED wpc
               /\ UNCHANGED werr
          ELSE WRaise("AFTConnectionError") /\ UNCHANGED wi
    /\ UNCHANGED <<uses_hddimg, mounts>>

\* the commands of a mount function, one per step
MountLayers(layers) ==
    /\ remote' = Append(remote, layers[wi][1])
    /\ \E ok \in BOOLEAN :
          IF ok
          THEN /\ mounts' = mounts \cup ({layers[wi][2]} \ {"none"})
               /\ IF wi = Len(layers)
                  THEN wpc' = "key" /\ wi' = 1
                  ELSE wi' = wi + 1 /\ UNCHANGED wpc
               /\ UNCHANGED werr
          ELSE WRaise("AFTConnectionError") /\ UNCHANGED <<wi, mounts>>
    /\ UNCHANGED uses_hddimg

\* if not self._uses_hddimg: self._mount_single_layer()
MountSingleLayer ==
    /\ wpc = "mount"
    /\ ~uses_hddimg
    /\ WriteImageOnly
    /\ MountLayers(SingleLayer)

\* else: self._mount_two_layers()
MountTwoLayers ==
    /\ wpc = "mount"
    /\ uses_hddimg
    /\ WriteImageOnly
    /\ MountLayers(TwoLayers)

\* lines 253-285: the key is written below the root mount point
InstallKey ==
    /\ wpc = "key"
    /\ WriteImageOnly
    /\ remote' = Append(remote, KeyCommands(uses_hddimg)[wi])
    /\ \E ok \in BOOLEAN :
          IF ok
          THEN /\ IF wi = Len(KeyCommands(uses_hddimg))
                  THEN wpc' = "umount" /\ wi' = 1
                  ELSE wi' = wi + 1 /\ UNCHANGED wpc
               /\ UNCHANGED werr
          ELSE WRaise("AFTConnectionError") /\ UNCHANGED wi
    /\ UNCHANGED <<uses_hddimg, mounts>>

\* lines 287-289: umount of the root mount point, then write_image returns
UnmountRoot ==
    /\ wpc = "umount"
    /\ WriteImageOnly
    /\ remote' = Append(remote, UmountCommand[1])
    /\ \E ok \in BOOLEAN :
          IF ok
          THEN /\ mounts' = mounts \ {UmountCommand[2]}
               /\ wpc' = "done" /\ UNCHANGED werr
          ELSE WRaise("AFTConnectionError") /\ UNCHANGED mounts
    /\ UNCHANGED <<uses_hddimg, wi>>

\* write_image of a .hddimg or another image, at the call of _enter_mode
InitWriteImage ==
    /\ mode = "service"
    /\ dev_ip \in {"None"} \cup Addresses
    /\ mpc = "for" /\ tries = 0 /\ polls = 0 /\ powerCycles = 0 /\ replays = 0
    /\ ip_address = "None" /\ verifiedAt = 0 /\ merr = "none"
    /\ wpc = "enter_mode" /\ uses_hddimg \in BOOLEAN /\ wi = 0
    /\ remote = <<>> /\ mounts = {} /\ werr = "none"
    /\ EdisonIdle /\ FleetIdle /\ CheckIdle /\ GetIpIdle /\ RecorderIdle /\ MainIdle /\ DeviceIdle /\ RecoveryIdle /\ ArgsIdle

NextWriteImage ==
    \/ EnterMode
    \/ WriteImageEnterMode \/ FlashImage \/ MountSingleLayer \/ MountTwoLayers
    \/ InstallKey \/ UnmountRoot

SpecWriteImage == InitWriteImage /\ [][NextWriteImage]_vars

-----------------------------------------------------------------------------
(* check_all_serial and check_all_parallel *)

Devices == 1..NumDevices

\* the sequences of distinct devices: what manager.get_configs() can return
ConfigLists ==
    {c \in UNION {[1..n -> Devices] : n \in 0..NumDevices} :
        \A i, j \in DOMAIN c : i # j => c[i] # c[j]}

\* what check(device_args) returns for device d: (status, result string)
CheckResult(d) == <<outcome[d] = "pass", "report">>

\* _handle_result: fold one device result into (success, result string)
HandleResultLastWins(check_result, device, success_status, result_string) ==
    <<check_result[1], Append(result_string, device)>>
HandleResult(check_result, device, success_status, result_string) ==
    <<success_status /\ check_result[1], Append(result_string, device)>>

\* check_all dispatches on args.checkall
InitFleet ==
    /\ checkall \in {"fast", "accurate"}
    /\ configs \in ConfigLists
    /\ outcome \in [Devices -> {"pass", "fail", "raise"}]
    /\ fpc = IF checkall = "fast" THEN "spawn" ELSE "serial"
    /\ idx = 1
    /\ threads = [d \in Devices |-> "unstarted"]
    /\ return_values = <<>>
    /\ success = TRUE /\ result = <<>>
    /\ puts = [d \in Devices |-> 0]
    /\ ferr = "none"
    /\ EdisonIdle /\ PcIdle /\ CheckIdle /\ GetIpIdle /\ RecorderIdle /\ MainIdle /\ DeviceIdle /\ WriteImageIdle /\ RecoveryIdle /\ ArgsIdle

\* check_all_serial: one iteration of "for dev_config in configs", then
\* return (success, result); an exception of check() leaves the function
SerialCheck ==
    /\ fpc = "serial"
    /\ FleetOnly
    /\ IF idx <= Len(configs)
       THEN LET d == configs[idx] IN
            IF outcome[d] = "raise"
            THEN /\ fpc' = "raised" /\ ferr' = "Exception"
                 /\ UNCHANGED <<idx, success, result>>
            ELSE LET r == HandleResult(CheckResult(d), d, success, result) IN
                 /\ success' = r[1] /\ result' = r[2]
                 /\ idx' = idx + 1
                 /\ UNCHANGED <<fpc, ferr>>
       ELSE fpc' = "returned" /\ UNCHANGED <<idx, success, result, ferr>>
    /\ UNCHANGED <<checkall, configs, outcome, threads, return_values, puts>>

\* check_all_parallel: one iteration of the loop that builds and starts a
\* Thread per dev_config; after the loop the joins start
StartThread ==
    /\ fpc = "spawn"
    /\ FleetOnly
    /\ IF idx <= Len(configs)
       THEN /\ threads' = [threads EXCEPT ![configs[idx]] = "running"]
            /\ idx' = idx + 1 /\ UNCHANGED fpc
       ELSE fpc' = "join" /\ idx' = 1 /\ UNCHANGED threads
    /\ UNCHANGED <<checkall, configs, outcome, return_values, success, result,
                   puts, ferr>>

\* check_wrapper, first line: ret = check(args); an exception ends the thread
WorkerCheck(d) ==
    /\ threads[d] = "running"
    /\ FleetOnly
    /\ threads' = [threads EXCEPT ![d] = IF outcome[d] = "raise" THEN "died"
                                                                ELSE "checked"]
    /\ UNCHANGED <<fpc, checkall, configs, outcome, idx, return_values, success,
                   result, puts, ferr>>

\* check_wrapper, second line: queue.put((ret, args.device))
WorkerPut(d) ==
    /\ threads[d] = "checked"
    /\ FleetOnly
    /\ return_values' = Append(return_values, <<CheckResult(d), d>>)
    /\ puts' = [puts EXCEPT ![d] = @ + 1]
    /\ threads' = [threads EXCEPT ![d] = "finished"]
    /\ UNCHANGED <<fpc, checkall, configs, outcome, idx, success, result, ferr>>

Worker == \E d \in Devices : WorkerCheck(d) \/ WorkerPut(d)

\* thread.join() returns once the thread has ended
JoinReturns(t) == t \in {"finished", "died"}

\* one iteration of "for thread in threads: thread.join()"
JoinThread ==
    /\ fpc = "join"
    /\ FleetOnly
    /\ IF idx <= Len(configs)
       THEN /\ JoinReturns(threads[configs[idx]])
            /\ idx' = idx + 1 /\ UNCHANGED fpc
       ELSE fpc' = "drain" /\ UNCHANGED idx
    /\ UNCHANGED <<checkall, configs, outcome, threads, return_values, success,
                   result, puts, ferr>>

\* one iteration of "while not return_values.empty()", then return
Drain ==
    /\ fpc = "drain"
    /\ FleetOnly
    /\ IF return_values # <<>>
       THEN LET item == Head(return_values)
                r == HandleResult(item[1], item[2], success, result) IN
            /\ return_values' = Tail(return_values)
            /\ success' = r[1] /\ result' = r[2]
            /\ UNCHANGED fpc
       ELSE fpc' = "returned" /\ UNCHANGED <<return_values, success, result>>
    /\ UNCHANGED <<checkall, configs, outcome, idx, threads, puts, ferr>>

NextFleet == SerialCheck \/ StartThread \/ Worker \/ JoinThread \/ Drain

SpecFleet == InitFleet /\ [][NextFleet]_vars

-----------------------------------------------------------------------------
(* _get_device_args *)

\* copy.deepcopy(args): a new object with the same field values; the
\* result is the enlarged heap and the reference of the new object
NoCopy(store, ref) == [store |-> store, ref |-> ref]
DeepCopy(store, ref) == [store |-> Append(store, store[ref]), ref |-> Len(store) + 1]

\* "serial_port" in dev_config["settings"]
DeclaresSerialPort(d) == d \in with_port

\* device_args = copy.deepcopy(args)
GetDeviceArgsCopy ==
    /\ apc = "copy"
    /\ ArgsOnly
    /\ LET c == DeepCopy(heap, 1)
       IN  heap' = c.store /\ device_args' = c.ref
    /\ apc' = "set_device"
    /\ UNCHANGED <<caller_args, dev_configs, with_port, ai, thread_args, seen>>

\* device_args.device = dev_config["name"]
GetDeviceArgsSetDevice ==
    /\ apc = "set_device"
    /\ ArgsOnly
    /\ heap' = [heap EXCEPT ![device_args].device = dev_configs[ai]]
    /\ apc' = "set_record"
    /\ UNCHANGED <<caller_args, dev_configs, with_port, ai, device_args,
                   thread_args, seen>>

\* device_args.record = True or False, by the settings of the device
GetDeviceArgsSetRecord ==
    /\ apc = "set_record"
    /\ ArgsOnly
    /\ heap' = [heap EXCEPT ![device_args].record =
                                 DeclaresSerialPort(dev_configs[ai])]
    /\ apc' = "start"
    /\ UNCHANGED <<caller_args, dev_configs, with_port, ai, device_args,
                   thread_args, seen>>

\* check_all_parallel: Thread(target=check_wrapper, args=(device_args, ...))
\* is started, and the loop goes to the next dev_config
ArgsStartThread ==
    /\ apc = "start"
    /\ ArgsOnly
    /\ thread_args' = Append(thread_args, device_args)
    /\ ai' = ai + 1
    /\ apc' = IF ai' <= Len(dev_configs) THEN "copy" ELSE "join"
    /\ UNCHANGED <<heap, caller_args, dev_configs, with_port, device_args, seen>>

\* a started thread runs check(args): it reads args.device and args.record
\* while the main thread may be preparing the arguments of later devices
ArgsCheckReads ==
    /\ ArgsOnly
    /\ \E k \in DOMAIN thread_args \ DOMAIN seen :
          seen' = seen @@ (k :> heap[thread_args[k]])
    /\ UNCHANGED <<apc, heap, caller_args, dev_configs, with_port, ai,
                   device_args, thread_args>>

\* a scan over any list of devices, any of which may declare a serial
\* port, called with args whose record field has any value
InitArgs ==
    /\ caller_args \in [device : {0}, record : BOOLEAN]
    /\ heap = <<caller_args>>
    /\ dev_configs \in ConfigLists
    /\ with_port \in SUBSET Devices
    /\ ai = 1 /\ device_args = 0 /\ thread_args = <<>> /\ seen = <<>>
    /\ apc = IF dev_configs = <<>> THEN "join" ELSE "copy"
    /\ EdisonIdle /\ PcIdle /\ FleetIdle /\ CheckIdle /\ GetIpIdle /\ RecorderIdle /\ MainIdle /\ DeviceIdle /\ WriteImageIdle /\ RecoveryIdle

NextArgs ==
    \/ GetDeviceArgsCopy \/ GetDeviceArgsSetDevice \/ GetDeviceArgsSetRecord
    \/ ArgsStartThread \/ ArgsCheckReads

SpecArgs == InitArgs /\ [][NextArgs]_vars

-----------------------------------------------------------------------------
(* check(): the health check of one device *)

cargs == <<hasDevice, nopoweroff, record, model>>
cstatus == <<poweron_status, connection_status, poweroff_status, serial_status>>
cworker == <<wst, results_queue, flashed>>
cghost == <<probes, raisedBy, interrupted>>

\* how a probe call can end: it returns, or it raises AFTNotImplementedError,
\* another Exception, or KeyboardInterrupt
ProbeOutcomes == {"ok", "notimpl", "error", "interrupt"}

\* except KeyboardInterrupt: raise
ProbeReraises(o) == o = "interrupt"

\* the status a probe's try statement leaves in its local: untouched when
\* the probe returns, (True, str(error)) for AFTNotImplementedError,
\* (False, str(error)) for any other Exception
ProbeStatusNotImplementedFails(o) ==
    CASE o = "notimpl" -> <<FALSE, "NotImplemented">>
      [] o = "error" -> <<FALSE, "Error">>
      [] OTHER -> DefaultStatus
ProbeStatusErrorPasses(o) ==
    CASE o = "notimpl" -> <<TRUE, "NotImplemented">>
      [] o = "error" -> <<TRUE, "Error">>
      [] OTHER -> DefaultStatus
ProbeStatus(o) ==
    CASE o = "notimpl" -> <<TRUE, "NotImplemented">>
      [] o = "error" -> <<FALSE, "Error">>
      [] OTHER -> DefaultStatus

\* serial_status of _format_sanity_test_result; log is what the file system
\* says about the serial log: "missing", "small" (under 5 bytes) or "ok"
SerialStatus(rec, log, passed) ==
    IF rec
    THEN CASE log = "missing" -> <<FALSE, "No serial log file was generated">>
           [] log = "small" -> <<FALSE, "Serial log file seems to be empty">>
           [] OTHER -> passed
    ELSE <<TRUE, "Skipped - serial recording is off">>

\* _format_sanity_test_result: (success, report); the report keeps the four
\* message lines and the notes appended to them
FormatSanityTestResultWithoutElif(on, conn, off, serial) ==
    LET inverted == IF on[1] = TRUE /\ off[1] = FALSE
                    THEN {"inverted_after_poweron"} ELSE {}
        invalid == IF on[1] = FALSE /\ off[1] = TRUE
                   THEN {"poweroff_invalid"} ELSE {}
    IN  <<on[1] /\ conn[1] /\ off[1] /\ serial[1],
          [lines |-> <<on[2], conn[2], off[2], serial[2]>>,
           notes |-> inverted \cup invalid]>>
FormatSanityTestResult(on, conn, off, serial) ==
    LET inverted == IF on[1] = TRUE /\ off[1] = FALSE
                    THEN {"inverted_after_poweron"}
                    ELSE IF conn[1] = TRUE /\ off[1] = FALSE
                    THEN {"inverted_after_connection"}
                    ELSE {}
        invalid == IF on[1] = FALSE /\ off[1] = TRUE
                   THEN {"poweroff_invalid"} ELSE {}
    IN  <<on[1] /\ conn[1] /\ off[1] /\ serial[1],
          [lines |-> <<on[2], conn[2], off[2], serial[2]>>,
           notes |-> inverted \cup invalid]>>

\* the lists of test verdicts tester.get_results() can hold
TestResultLists == {<<>>, <<TRUE>>, <<FALSE>>, <<TRUE, FALSE>>}

\* reduce(lambda x, y: x and y, results[0]) of a non-empty list
RECURSIVE ReduceAnd(_)
ReduceAnd(l) == IF Len(l) = 1 THEN l[1] ELSE ReduceAnd(SubSeq(l, 1, Len(l) - 1)) /\ l[Len(l)]

\* check() is entered: "if not args.device: raise AFTConfigurationError"
CheckStart ==
    /\ cpc = "start"
    /\ CheckOnly
    /\ IF hasDevice THEN cpc' = "reserve" /\ UNCHANGED exc
                    ELSE cpc' = "raised" /\ exc' = "AFTConfigurationError"
    /\ UNCHANGED <<cargs, reserved, cstatus, sanity_results, image_test_results,
                   cworker, cghost, events, cresult>>

\* device = manager.reserve_specific(args.device), before the try statement
ReserveSpecific ==
    /\ cpc = "reserve"
    /\ CheckOnly
    /\ \E ok \in BOOLEAN :
          IF ok THEN reserved' = TRUE /\ cpc' = "record" /\ UNCHANGED exc
                ELSE /\ cpc' = "raised" /\ exc' = "Exception"
                     /\ UNCHANGED reserved
    /\ UNCHANGED <<cargs, cstatus, sanity_results, image_test_results,
                   cworker, cghost, events, cresult>>

\* _run_sanity_tests starts: "if args.record: ... device.record_serial()",
\* outside every try block of the function
RecordSerial ==
    /\ cpc = "record"
    /\ CheckOnly
    /\ \E ok \in BOOLEAN :
          IF record /\ ~ok
          THEN cpc' = "finally" /\ exc' = "Exception"
          ELSE cpc' = "poweron" /\ UNCHANGED exc
    /\ UNCHANGED <<cargs, reserved, cstatus, sanity_results, image_test_results,
                   cworker, cghost, events, cresult>>

\* one try statement of _run_sanity_tests around probe p, ending in outcome o
RunProbe(p, o, after) ==
    /\ cpc = p
    /\ CheckOnly
    /\ probes' = Append(probes, p)
    /\ raisedBy' = [raisedBy EXCEPT ![p] = o]
    /\ IF ProbeReraises(o)
       THEN /\ exc' = "KeyboardInterrupt" /\ interrupted' = p
            /\ cpc' = "finally"
       ELSE /\ cpc' = after
            /\ UNCHANGED <<exc, interrupted>>
    /\ UNCHANGED <<cargs, reserved, serial_status, sanity_results,
                   image_test_results, cworker, events, cresult>>

\* device.check_poweron()
CheckPoweron ==
    \E o \in ProbeOutcomes :
       /\ RunProbe("poweron", o, "connection")
       /\ poweron_status' = IF ProbeReraises(o) THEN poweron_status ELSE ProbeStatus(o)
       /\ UNCHANGED <<connection_status, poweroff_status>>

\* device.check_connection()
CheckConnection ==
    \E o \in ProbeOutcomes :
       /\ RunProbe("connection", o, "poweroff")
       /\ connection_status' = IF ProbeReraises(o) THEN connection_status ELSE ProbeStatus(o)
       /\ UNCHANGED <<poweron_status, poweroff_status>>

\* device.check_poweroff()
CheckPoweroff ==
    \E o \in ProbeOutcomes :
       /\ RunProbe("poweroff", o, "format")
       /\ poweroff_status' = IF ProbeReraises(o) THEN poweroff_status ELSE ProbeStatus(o)
       /\ UNCHANGED <<poweron_status, connection_status>>

\* return _format_sanity_test_result(...): sanity_results of check()
FormatResult ==
    /\ cpc = "format"
    /\ CheckOnly
    /\ \E log \in {"missing", "small", "ok"} :
          /\ serial_status' = SerialStatus(record, log, serial_status)
          /\ sanity_results' = FormatSanityTestResult(poweron_status,
                                  connection_status, poweroff_status, serial_status')
    /\ cpc' = "image_gate"
    /\ UNCHANGED <<cargs, reserved, poweron_status, connection_status,
                   poweroff_status, image_test_results, exc, cworker, cghost,
                   events, cresult>>

\* "if sanity_results[0] == True" of check()
RunsImageStepAlways(sanity) == TRUE
RunsImageStep(sanity) == sanity[1] = TRUE

\* "if device.model.lower() == "edison"" of _run_tests_on_know_good_image
SkipsImageTestNever(m) == FALSE
SkipsImageTest(m) == m = "edison"

\* image_test_results = (True, "Image Test result: Not run"); then
\* _run_tests_on_know_good_image is called only if sanity_results[0] == True,
\* and it returns at once for an edison
ImageGate ==
    /\ cpc = "image_gate"
    /\ CheckOnly
    /\ IF RunsImageStep(sanity_results)
       THEN /\ events' = Append(events, "image_step")
            /\ IF SkipsImageTest(model)
               THEN /\ image_test_results' =
                          <<TRUE, "Skipped - produces too many false negatives">>
                    /\ cpc' = "finally"
               ELSE /\ image_test_results' = <<TRUE, "Image Test result: Not run">>
                    /\ cpc' = "process_start"
       ELSE /\ image_test_results' = <<TRUE, "Image Test result: Not run">>
            /\ cpc' = "finally"
            /\ UNCHANGED events
    /\ UNCHANGED <<cargs, reserved, cstatus, sanity_results, exc, cworker,
                   cghost, cresult>>

\* results_queue = multiprocessing_queue(); process.start()
ProcessStart ==
    /\ cpc = "process_start"
    /\ CheckOnly
    /\ wst' = "running" /\ results_queue' = <<>>
    /\ cpc' = "join"
    /\ UNCHANGED <<cargs, reserved, cstatus, sanity_results, image_test_results,
                   exc, flashed, cghost, events, cresult>>

\* worker: the chdir calls and the removal of old logs; an OSError ends it
WorkerPrepare ==
    /\ wst = "running"
    /\ CheckOnly
    /\ \E ok \in BOOLEAN : wst' = IF ok THEN "flashing" ELSE "died"
    /\ UNCHANGED <<cpc, cargs, reserved, cstatus, sanity_results,
                   image_test_results, exc, results_queue, flashed, cghost,
                   events, cresult>>

\* worker: device.write_image(image); it returns, raises or exits the process
WorkerWriteImage ==
    /\ wst = "flashing"
    /\ CheckOnly
    /\ flashed' = TRUE
    /\ \E ok \in BOOLEAN : wst' = IF ok THEN "testing" ELSE "died"
    /\ UNCHANGED <<cpc, cargs, reserved, cstatus, sanity_results,
                   image_test_results, exc, results_queue, cghost, events,
                   cresult>>

\* the size of the pickled result (verdicts and result text) against what
\* the pipe under a multiprocessing queue holds while nobody reads it
ResultSizes == {"fits", "exceeds"}

\* results.put(...) hands the result to the feeder thread of the queue; the
\* process ends only after that thread has written all of it to the pipe,
\* which for a result larger than the pipe needs a reader
PipeHolds(size) == size = "fits"

\* worker: tester.execute() and results.put(...); the tester may raise
WorkerTest ==
    /\ wst = "testing"
    /\ CheckOnly
    /\ \/ \E r \in TestResultLists, size \in ResultSizes :
             /\ results_queue' = <<r>>
             /\ wst' = IF PipeHolds(size) THEN "flushing" ELSE "blocked"
       \/ wst' = "died" /\ UNCHANGED results_queue
    /\ UNCHANGED <<cpc, cargs, reserved, cstatus, sanity_results,
                   image_test_results, exc, flashed, cghost, events, cresult>>

\* worker: the feeder thread has written the result to the pipe and the
\* process ends; a worker blocked on a full pipe ends only after a get(),
\* and the only get() of the parent comes after its join
WorkerExit ==
    /\ wst = "flushing"
    /\ CheckOnly
    /\ wst' = "exited"
    /\ UNCHANGED <<cpc, cargs, reserved, cstatus, sanity_results,
                   image_test_results, exc, results_queue, flashed, cghost,
                   events, cresult>>

\* "except Exception" around the image step: KeyboardInterrupt is no Exception
ImageStepCatches(e) == e # "KeyboardInterrupt"

\* the parent leaves the image step with exception e raised inside its try
ImageStepRaise(e) ==
    IF ImageStepCatches(e)
    THEN /\ image_test_results' = <<FALSE, e>>
         /\ UNCHANGED <<exc, interrupted>>
    ELSE /\ exc' = e /\ interrupted' = "image"
         /\ UNCHANGED image_test_results

\* process.join(): returns once the worker process has ended; a
\* KeyboardInterrupt can be raised in the parent while it waits
ProcessJoin ==
    /\ cpc = "join"
    /\ CheckOnly
    /\ \/ /\ wst \in {"exited", "died"}
          /\ cpc' = "read_queue"
          /\ UNCHANGED <<image_test_results, exc, interrupted>>
       \/ /\ ImageStepRaise("KeyboardInterrupt")
          /\ cpc' = "finally"
    /\ UNCHANGED <<cargs, reserved, cstatus, sanity_results, cworker, probes,
                   raisedBy, events, cresult>>

\* after the join: "No results from test run" for an empty queue, else the
\* AND of the verdicts (reduce raises TypeError on an empty list)
ReadQueue ==
    /\ cpc = "read_queue"
    /\ CheckOnly
    /\ IF results_queue = <<>>
       THEN ImageStepRaise("No results from test run") /\ UNCHANGED results_queue
       ELSE /\ results_queue' = Tail(results_queue)
            /\ IF Head(results_queue) = <<>>
               THEN ImageStepRaise("TypeError")
               ELSE /\ image_test_results' =
                          IF ReduceAnd(Head(results_queue))
                          THEN <<TRUE, "Image test result: Ok">>
                          ELSE <<FALSE, "Image test result: Failure(s)">>
                    /\ UNCHANGED <<exc, interrupted>>
    /\ cpc' = "finally"
    /\ UNCHANGED <<cargs, reserved, cstatus, sanity_results, wst, flashed,
                   probes, raisedBy, events, cresult>>

\* finally: "if not args.nopoweroff: device.detach()"; the cutter's
\* check_call raises CalledProcessError when the relay command fails, and
\* that exception replaces the one in flight and skips the release
FinallyDetach ==
    /\ cpc = "finally"
    /\ CheckOnly
    /\ IF nopoweroff
       THEN cpc' = "release" /\ UNCHANGED <<events, exc>>
       ELSE \E ok \in BOOLEAN :
               IF ok THEN /\ events' = Append(events, "detach")
                          /\ cpc' = "release" /\ UNCHANGED exc
                     ELSE /\ exc' = "CalledProcessError" /\ cpc' = "raised"
                          /\ UNCHANGED events
    /\ UNCHANGED <<cargs, reserved, cstatus, sanity_results, image_test_results,
                   cworker, cghost, cresult>>

\* finally: manager.release(device); then the exception in flight, if any,
\* leaves check()
FinallyRelease ==
    /\ cpc = "release"
    /\ CheckOnly
    /\ events' = Append(events, "release")
    /\ cpc' = IF exc = "none" THEN "results" ELSE "raised"
    /\ UNCHANGED <<cargs, reserved, cstatus, sanity_results, image_test_results,
                   exc, cworker, cghost, cresult>>

\* "if not results[0]:" before common.blacklist_device
BlacklistsAlways(results) == TRUE
Blacklists(results) == ~results[1]

\* results = (sanity and image, ...); blacklist on failure; return results
ReturnResults ==
    /\ cpc = "results"
    /\ CheckOnly
    /\ cresult' = <<sanity_results[1] /\ image_test_results[1],
                    <<sanity_results[2], image_test_results[2]>> >>
    /\ events' = IF Blacklists(cresult') THEN Append(events, "blacklist")
                                         ELSE events
    /\ cpc' = "returned"
    /\ UNCHANGED <<cargs, reserved, cstatus, sanity_results, image_test_results,
                   exc, cworker, cghost>>

InitCheck ==
    /\ cpc = "start"
    /\ hasDevice \in BOOLEAN /\ nopoweroff \in BOOLEAN /\ record \in BOOLEAN
    /\ model \in {"edison", "pc"}
    /\ reserved = FALSE
    /\ poweron_status = DefaultStatus /\ connection_status = DefaultStatus
    /\ poweroff_status = DefaultStatus /\ serial_status = DefaultStatus
    /\ sanity_results = "unset" /\ image_test_results = "unset"
    /\ exc = "none" /\ wst = "none" /\ results_queue = <<>>
    /\ probes = <<>> /\ raisedBy = [p \in {"poweron", "connection", "poweroff"} |-> "none"]
    /\ interrupted = "none" /\ events = <<>> /\ flashed = FALSE
    /\ cresult = "none"
    /\ EdisonIdle /\ PcIdle /\ FleetIdle /\ GetIpIdle /\ RecorderIdle /\ MainIdle /\ DeviceIdle /\ WriteImageIdle /\ RecoveryIdle /\ ArgsIdle

NextCheck ==
    \/ CheckStart \/ ReserveSpecific \/ RecordSerial
    \/ CheckPoweron \/ CheckConnection \/ CheckPoweroff \/ FormatResult
    \/ ImageGate \/ ProcessStart \/ WorkerPrepare \/ WorkerWriteImage
    \/ WorkerTest \/ WorkerExit \/ ProcessJoin \/ ReadQueue
    \/ FinallyDetach \/ FinallyRelease \/ ReturnResults

SpecCheck == InitCheck /\ [][NextCheck]_vars

\* process.join() returns
JoinCompletes == ProcessJoin /\ cpc' = "read_queue"

-----------------------------------------------------------------------------
(* get_ip *)

\* self.dev_id of the device, a MAC address
DevId == "mac1"

\* the fields lease lines are made of
Macs == {"mac1", "mac2"}
Hosts == {"host1", "host2"}
Domains == {"lan"}

\* what the SSH probe can be pointed at
Targets == Addresses \cup Hosts

\* the rows the comment of get_ip describes: <mac> <ip> <hostname> <domain>
LeaseLines == Macs \X Addresses \X Hosts \X Domains

RECURSIVE SeqsUpTo(_, _)
SeqsUpTo(S, n) ==
    IF n = 0 THEN {<<>>}
    ELSE LET shorter == SeqsUpTo(S, n - 1)
         IN  shorter \cup {Append(q, x) : q \in {r \in shorter : Len(r) = n - 1}, x \in S}

\* "self.dev_id in line"
ContainsDevId(line) == \E k \in DOMAIN line : line[k] = DevId

\* line.split()[2]: the third whitespace-separated field of the line
LeaseField(line) == line[3]

\* [line.split()[2] for line in leases if self.dev_id in line]
RECURSIVE FilteredFields(_)
FilteredFields(lines) ==
    IF lines = <<>> THEN <<>>
    ELSE IF ContainsDevId(Head(lines))
         THEN <<LeaseField(Head(lines))>> \o FilteredFields(Tail(lines))
         ELSE FilteredFields(Tail(lines))

\* ssh.test_ssh_connectivity(ip_address)
TestSshConnectivity(t) == t \in reachable

\* EdisonDevice: self._dut_ip, computed from the configured subnet
DutIp == "ip1"

\* PCDevice.get_ip up to the for loop: the leases file is read and
\* filtered; open() raises IOError when the file cannot be read
GetIpReadLeases ==
    /\ gpc = "start" /\ variant = "pc"
    /\ GetIpOnly
    /\ \/ /\ ip_addresses' = FilteredFields(leases)
          /\ gi' = 1 /\ gpc' = "loop"
       \/ /\ gpc' = "raised" /\ UNCHANGED <<ip_addresses, gi>>
    /\ UNCHANGED <<variant, leases, reachable, self_dev_ip, probed, probedOk, gret>>

\* PCDevice.get_ip: one iteration of "for ip_address in ip_addresses", or
\* the end of the function, which returns None
GetIpProbe ==
    /\ gpc = "loop"
    /\ GetIpOnly
    /\ IF gi <= Len(ip_addresses)
       THEN LET ip == ip_addresses[gi] IN
            /\ probed' = Append(probed, ip)
            /\ IF TestSshConnectivity(ip)
               THEN /\ probedOk' = probedOk \cup {ip}
                    /\ self_dev_ip' = ip /\ gret' = ip
                    /\ gpc' = "returned" /\ UNCHANGED gi
               ELSE /\ gi' = gi + 1
                    /\ UNCHANGED <<probedOk, self_dev_ip, gret, gpc>>
       ELSE /\ gret' = "None" /\ gpc' = "returned"
            /\ UNCHANGED <<probed, probedOk, self_dev_ip, gi>>
    /\ UNCHANGED <<variant, leases, reachable, ip_addresses>>

\* EdisonDevice.get_ip: return self._dut_ip
GetIpEdison ==
    /\ gpc = "start" /\ variant = "edison"
    /\ GetIpOnly
    /\ gret' = DutIp /\ gpc' = "returned"
    /\ UNCHANGED <<variant, leases, reachable, ip_addresses, gi, self_dev_ip,
                   probed, probedOk>>

\* a device of either class, any leases file, any set of reachable targets,
\* and for a PCDevice whatever an earlier call left in self.dev_ip
InitGetIp ==
    /\ gpc = "start"
    /\ variant \in {"pc", "edison"}
    /\ leases \in SeqsUpTo(LeaseLines, MaxLeases)
    /\ reachable \in SUBSET Targets
    /\ self_dev_ip \in IF variant = "pc" THEN {"None"} \cup Hosts ELSE {"None"}
    /\ ip_addresses = <<>> /\ gi = 0
    /\ probed = <<>> /\ probedOk = {} /\ gret = "unset"
    /\ EdisonIdle /\ PcIdle /\ FleetIdle /\ CheckIdle /\ RecorderIdle /\ MainIdle /\ DeviceIdle /\ WriteImageIdle /\ RecoveryIdle /\ ArgsIdle

NextGetIp == GetIpReadLeases \/ GetIpProbe \/ GetIpEdison

SpecGetIp == InitGetIp /\ [][NextGetIp]_vars

-----------------------------------------------------------------------------
(* The serial recorder *)

\* the bytes of the port: letters, the newline, and "esc", which stands
\* for one whole ANSI escape sequence such as ESC[0m
Bytes == {"a", "b", "nl", "esc"}

\* read_buffer.rfind("\n"), counted from 1: 0 where Python answers -1
RECURSIVE RFind(_)
RFind(buf) ==
    IF buf = <<>> THEN 0
    ELSE IF buf[Len(buf)] = "nl" THEN Len(buf)
    ELSE RFind(SubSeq(buf, 1, Len(buf) - 1))

\* read_buffer[0:last_newline + 1]
BatchOf(buf, nl) == SubSeq(buf, 1, nl)

\* read_buffer[last_newline + 1:-1]: the slice ends before the last byte
RestOf(buf, nl) == SubSeq(buf, nl + 1, Len(buf) - 1)

\* re.sub(r'\x1b\[...', '', text)
StripEscapes(text) == SelectSeq(text, LAMBDA c : c # "esc")

\* text_batch.replace("\n", "\n[" + str(time_now) + "] ")
RECURSIVE Timed(_)
Timed(text) ==
    IF text = <<>> THEN <<>>
    ELSE IF Head(text) = "nl" THEN <<"nl", "ts">> \o Timed(Tail(text))
    ELSE <<Head(text)>> \o Timed(Tail(text))

\* err.num of a SerialException: 4 ("read failed") or another number
ErrNums == {4, 5}

\* if err.num == 4: serial_stream.close(); serial_stream.open()
ReopensPortNever(num) == FALSE
ReopensPort(num) == num = 4

\* lines 61-71: one read of the port, the search of the last newline and
\* the test that sends the loop back to the read; a SerialException of the
\* read appends nothing and enters the except clause
RecordRead ==
    /\ rpc = "read"
    /\ RecorderOnly
    /\ reopened' = FALSE
    /\ \/ /\ \E num \in ErrNums : errnum' = num
          /\ rpc' = "except"
          /\ UNCHANGED <<stream, bytes_read, read_buffer, last_newline>>
       \/ \E k \in 0..Len(stream) :
             /\ read_buffer' = read_buffer \o SubSeq(stream, 1, k)
             /\ bytes_read' = bytes_read \o SubSeq(stream, 1, k)
             /\ stream' = SubSeq(stream, k + 1, Len(stream))
             /\ last_newline' = RFind(read_buffer')
             /\ rpc' = IF last_newline' = 0 /\ ~TERMINATE_FLAG THEN "read"
                                                               ELSE "batch"
             /\ UNCHANGED errnum
    /\ UNCHANGED <<text_batch, output, taken, TERMINATE_FLAG, signal_at_end>>

\* lines 63-67: the except clause reopens the port when err.num == 4, and
\* in every case continues with the next read
RecordExcept ==
    /\ rpc = "except"
    /\ RecorderOnly
    /\ reopened' = ReopensPort(errnum)
    /\ errnum' = 0
    /\ rpc' = "read"
    /\ UNCHANGED <<stream, bytes_read, read_buffer, last_newline, text_batch,
                   output, taken, TERMINATE_FLAG, signal_at_end>>

\* lines 73-82: the batch is cut out of the buffer, stripped, stamped,
\* written and flushed
RecordBatch ==
    /\ rpc = "batch"
    /\ RecorderOnly
    /\ taken' = taken \o BatchOf(read_buffer, last_newline)
    /\ text_batch' = StripEscapes(BatchOf(read_buffer, last_newline))
    /\ read_buffer' = RestOf(read_buffer, last_newline)
    /\ output' = output \o Timed(text_batch')
    /\ rpc' = "flag"
    /\ UNCHANGED <<stream, bytes_read, last_newline, TERMINATE_FLAG,
                   signal_at_end, errnum, reopened>>

\* lines 83-90: "if TERMINATE_FLAG:" writes what the code takes for the
\* remaining buffer and returns; otherwise the loop goes on
RecordTerminate ==
    /\ rpc = "flag"
    /\ RecorderOnly
    /\ IF TERMINATE_FLAG
       THEN /\ IF read_buffer # <<>>
               THEN /\ read_buffer' = StripEscapes(text_batch)
                    /\ output' = output \o read_buffer'
               ELSE UNCHANGED <<read_buffer, output>>
            /\ rpc' = "returned"
       ELSE rpc' = "read" /\ UNCHANGED <<read_buffer, output>>
    /\ UNCHANGED <<stream, bytes_read, last_newline, text_batch, taken,
                   TERMINATE_FLAG, signal_at_end, errnum, reopened>>

\* signal_handler: TERMINATE_FLAG = True, at any point of the loop
SignalHandler ==
    /\ rpc \in {"read", "except", "batch", "flag"}
    /\ RecorderOnly
    /\ ~TERMINATE_FLAG
    /\ TERMINATE_FLAG' = TRUE
    /\ signal_at_end' = (stream = <<>>)
    /\ UNCHANGED <<rpc, stream, bytes_read, read_buffer, last_newline,
                   text_batch, output, taken, errnum, reopened>>

\* record() starts with an empty buffer on a port that will deliver any
\* bytes
InitRecorder ==
    /\ rpc = "read"
    /\ stream \in SeqsUpTo(Bytes, MaxInput)
    /\ bytes_read = <<>> /\ read_buffer = <<>> /\ last_newline = 0
    /\ text_batch = <<>> /\ output = <<>> /\ taken = <<>>
    /\ TERMINATE_FLAG = FALSE /\ signal_at_end = FALSE
    /\ errnum = 0 /\ reopened = FALSE
    /\ EdisonIdle /\ PcIdle /\ FleetIdle /\ CheckIdle /\ GetIpIdle /\ MainIdle /\ DeviceIdle /\ WriteImageIdle /\ RecoveryIdle /\ ArgsIdle

NextRecorder ==
    RecordRead \/ RecordExcept \/ RecordBatch \/ RecordTerminate \/ SignalHandler

SpecRecorder == InitRecorder /\ [][NextRecorder]_vars

\* the loop of record() keeps running: no statement of it blocks for ever
\* (the port is opened with timeout=0.01)
SpecRecorderLive ==
    /\ SpecRecorder
    /\ WF_vars(RecordRead) /\ WF_vars(RecordExcept)
    /\ WF_vars(RecordBatch) /\ WF_vars(RecordTerminate)

-----------------------------------------------------------------------------
(* main(): the single-main_device pass *)

\* how a call main() makes can end
CallOutcomes == {"returns", "raises"}

\* an exception leaves main()
NRaise(e) == npc' = "raised" /\ nerr' = e

\* lines 31-35: "if argv != None: ... sys.argv = argv" and parse_args()
MainParseArgs ==
    /\ npc = "start"
    /\ MainOnly
    /\ sys_argv' = IF argv # "None" THEN "given" ELSE sys_argv
    /\ npc' = "reserve"
    /\ UNCHANGED <<argv, noflash, notest, main_nopoweroff, main_device, main_calls, nerr>>

\* main_device = device_manager.reserve(); tester = Tester(device)
MainReserve ==
    /\ npc = "reserve"
    /\ MainOnly
    /\ \E o \in CallOutcomes :
          IF o = "returns"
          THEN main_device' = "reserved" /\ npc' = "flash" /\ UNCHANGED nerr
          ELSE NRaise("ReserveError") /\ UNCHANGED main_device
    /\ UNCHANGED <<argv, sys_argv, noflash, notest, main_nopoweroff, main_calls>>

\* "if not args.noflash: device.write_image(args.file_name)"
MainWriteImage ==
    /\ npc = "flash"
    /\ MainOnly
    /\ IF noflash
       THEN npc' = "test" /\ UNCHANGED <<main_calls, nerr>>
       ELSE \E o \in CallOutcomes :
               IF o = "returns"
               THEN /\ main_calls' = Append(main_calls, "write_image")
                    /\ npc' = "test" /\ UNCHANGED nerr
               ELSE NRaise("IOError") /\ UNCHANGED main_calls
    /\ UNCHANGED <<argv, sys_argv, noflash, notest, main_nopoweroff, main_device>>

\* "if not args.notest: tester.execute()"
MainExecute ==
    /\ npc = "test"
    /\ MainOnly
    /\ IF notest
       THEN npc' = "poweroff" /\ UNCHANGED <<main_calls, nerr>>
       ELSE \E o \in CallOutcomes :
               IF o = "returns"
               THEN /\ main_calls' = Append(main_calls, "execute")
                    /\ npc' = "poweroff" /\ UNCHANGED nerr
               ELSE NRaise("TesterError") /\ UNCHANGED main_calls
    /\ UNCHANGED <<argv, sys_argv, noflash, notest, main_nopoweroff, main_device>>

\* "if not args.nopoweroff: device.detach()"
MainDetach ==
    /\ npc = "poweroff"
    /\ MainOnly
    /\ IF main_nopoweroff
       THEN npc' = "restore" /\ UNCHANGED <<main_calls, nerr>>
       ELSE \E o \in CallOutcomes :
               IF o = "returns"
               THEN /\ main_calls' = Append(main_calls, "detach")
                    /\ npc' = "restore" /\ UNCHANGED nerr
               ELSE NRaise("CalledProcessError") /\ UNCHANGED main_calls
    /\ UNCHANGED <<argv, sys_argv, noflash, notest, main_nopoweroff, main_device>>

\* lines 46-48: sys.argv is put back and main() returns 0
MainReturn ==
    /\ npc = "restore"
    /\ MainOnly
    /\ sys_argv' = IF argv # "None" THEN "original" ELSE sys_argv
    /\ npc' = "returned"
    /\ UNCHANGED <<argv, noflash, notest, main_nopoweroff, main_device, main_calls, nerr>>

InitMain ==
    /\ npc = "start"
    /\ argv \in {"None", "given"} /\ sys_argv = "original"
    /\ noflash \in BOOLEAN /\ notest \in BOOLEAN /\ main_nopoweroff \in BOOLEAN
    /\ main_device = "unset" /\ main_calls = <<>> /\ nerr = "none"
    /\ EdisonIdle /\ PcIdle /\ FleetIdle /\ CheckIdle /\ GetIpIdle /\ RecorderIdle /\ DeviceIdle /\ WriteImageIdle /\ RecoveryIdle /\ ArgsIdle

NextMain ==
    \/ MainParseArgs \/ MainReserve \/ MainWriteImage \/ MainExecute
    \/ MainDetach \/ MainReturn

SpecMain == InitMain /\ [][NextMain]_vars

-----------------------------------------------------------------------------
(* Device: comparison *)

\* name, model and channel as Device.__init__ takes them from the descriptor
Descriptors ==
    { [name |-> "n1", model |-> "pc", channel |-> "c1"],
      [name |-> "n2", model |-> "edison", channel |-> "c2"],
      [name |-> "n2", model |-> "pc", channel |-> "c1"] }

\* the attributes of a Device object, with dev_ip as an example of state a
\* subclass changes later
DeviceObjects ==
    { [name |-> d.name, model |-> d.model, channel |-> d.channel,
       dev_id |-> id, dev_ip |-> ip] :
         d \in Descriptors, id \in {"id1", "id2"}, ip \in {"None", "ip1"} }

\* the objects that are compared
ObjectIds == 1..NumObjects

\* Device.__eq__
DeviceEqAlsoByName(self, comp) == self.dev_id = comp.dev_id /\ self.name = comp.name
DeviceEq(self, comp) == self.dev_id = comp.dev_id

\* Device.__ne__
DeviceNe(self, comp) == self.dev_id # comp.dev_id

\* a == b and a != b are evaluated for two of the objects
Compare ==
    /\ DeviceOnly
    /\ \E i \in ObjectIds, j \in ObjectIds :
          /\ qa' = i /\ qb' = j
          /\ eq_result' = DeviceEq(objs[i], objs[j])
          /\ ne_result' = DeviceNe(objs[i], objs[j])
    /\ UNCHANGED objs

\* the subclass caches another address in one of the objects
SetDevIp ==
    /\ DeviceOnly
    /\ \E i \in ObjectIds, a \in {"None", "ip1"} :
          /\ objs[i].dev_ip # a
          /\ objs' = [objs EXCEPT ![i].dev_ip = a]
    /\ UNCHANGED <<qa, qb, eq_result, ne_result>>

InitDevice ==
    /\ objs \in [ObjectIds -> {o \in DeviceObjects : o.dev_ip = "None"}]
    /\ qa = 0 /\ qb = 0 /\ eq_result = FALSE /\ ne_result = FALSE
    /\ EdisonIdle /\ PcIdle /\ FleetIdle /\ CheckIdle /\ GetIpIdle /\ RecorderIdle /\ MainIdle /\ WriteImageIdle /\ RecoveryIdle /\ ArgsIdle

NextDevice == Compare \/ SetDevIp

SpecDevice == InitDevice /\ [][NextDevice]_vars

-----------------------------------------------------------------------------
(* Claims about one _dfu_call *)

\* C1: one _dfu_call with budget N invokes the tool at most N times; its
\* attempt counter never exceeds N and moves only by steps of one, each step
\* following a tool run that failed; once a run succeeds the call has
\* returned, and a returned call invokes the tool and power-cycles no more.
C1_DfuAttemptsBounded ==
    /\ [](/\ invocations <= attempts
          /\ attempt \in 0..attempts
          /\ attempt <= invocations
          /\ (status = "zero" => epc = "dfu_returned"))
    /\ [][/\ attempt' # attempt => (attempt' = attempt + 1 /\ status = "timeout")
          /\ attempt' >= attempt
          /\ epc = "dfu_returned" =>
                (invocations' = invocations /\ cycles' = cycles)]_vars

\* a call that failed on every attempt but the last of a budget of at least
\* three, and then succeeded
C1_Witness ==
    /\ epc = "dfu_returned" /\ status = "zero"
    /\ attempts >= 3 /\ attempt = attempts - 1 /\ invocations = attempts
    /\ cycles = attempts - 1

\* C4: every tool run that fails, by a failure status or by the timeout, is
\* followed by a kill, exactly one power-cycle and, budget permitting, a
\* retry; a failed run is never taken for a successful flash step.
C4_FailedRunIsRetried ==
    /\ epc = "dfu_returned" => status = "zero"
    /\ epc = "dfu_while" => (kills = failedRuns /\ cycles = failedRuns)
    /\ (epc = "dfu_while" /\ attempt < attempts) => ENABLED DfuWhile

-----------------------------------------------------------------------------
(* Claims about _flash_image *)

\* C3: a _dfu_call that fails on all N attempts raises, no later step is
\* flashed and write_image does not return success; a call that fails N-1
\* times and then succeeds raises nothing and _flash_image goes on.
C3_ExhaustedBudgetAborts ==
    /\ (attempts > 0 /\ failedRuns = attempts) =>
          /\ epc \in {"dfu_kill", "dfu_reboot", "dfu_while", "raised"}
          /\ eresult = "none"
    /\ exhausted # 0 => (epc = "raised" /\ alt = exhausted /\ eresult = "none")
    /\ (epc = "dfu_returned" /\ status = "zero" /\ failedRuns = attempts - 1) =>
          (eerr = "none" /\ ENABLED FlashContinue)

-----------------------------------------------------------------------------
(* Claims about _enter_mode *)

\* C2: _enter_mode makes at most 8 attempts; when verification first passes
\* on attempt k, exactly k power-cycles and k replays were made; when no
\* attempt verifies the mode the call ends with LookupError after exactly
\* 8 power-cycles.
C2_EnterModeAttempts ==
    /\ tries <= EnterModeAttempts
    /\ mpc = "returned" =>
          (verifiedAt = tries /\ powerCycles = tries /\ replays = tries)
    /\ (mpc \in {"returned", "raised"} /\ verifiedAt = 0) =>
          (merr = "LookupError" /\ powerCycles = EnterModeAttempts)

-----------------------------------------------------------------------------
(* Claims about the fleet scan *)

\* the devices whose check() returned a result
Checked == {d \in Devices : \E i \in DOMAIN configs : configs[i] = d /\ outcome[d] # "raise"}

\* C5: whatever the iteration order of the configs and the arrival order of
\* the worker results, the boolean returned by check_all_serial and by
\* check_all_parallel is the logical AND of the per-device results.
C5_AggregateIsAnd ==
    fpc = "returned" => (success = (\A d \in Checked : outcome[d] = "pass"))

\* a parallel scan of all devices that returned failure, whose results
\* arrived in another order than the configs were iterated, the failing
\* device first
C5_Witness ==
    /\ fpc = "returned" /\ checkall = "fast"
    /\ Len(configs) = NumDevices /\ Len(result) = NumDevices
    /\ result # configs
    /\ outcome[result[1]] = "fail" /\ outcome[result[NumDevices]] = "pass"
    /\ ~success

\* C6: check_all_parallel starts one worker per config, every worker puts
\* exactly one result, draining starts only after every worker has ended,
\* and as many results are folded as there are configs.
C6_OneResultPerWorker ==
    checkall = "fast" =>
       /\ fpc \in {"join", "drain", "returned"} =>
             \A i \in DOMAIN configs : threads[configs[i]] # "unstarted"
       /\ \A d \in Devices :
             threads[d] # "unstarted" => \E i \in DOMAIN configs : configs[i] = d
       /\ \A d \in Devices : puts[d] <= 1
       /\ \A d \in Devices : threads[d] \in {"finished", "died"} => puts[d] = 1
       /\ fpc \in {"drain", "returned"} =>
             \A i \in DOMAIN configs : threads[configs[i]] \in {"finished", "died"}
       /\ fpc = "returned" => Len(result) = Len(configs)

\* C7: a fleet scan, serial or parallel, ends with a report that has a
\* section for every config it was given, whatever the checks did.
C7_EveryDeviceReported ==
    fpc \in {"returned", "raised"} =>
       /\ fpc = "returned"
       /\ \A i \in DOMAIN configs : \E j \in DOMAIN result : result[j] = configs[i]

-----------------------------------------------------------------------------
(* Claims about check() *)

\* the cleanup calls check() made, in order
Cleanup == SelectSeq(events, LAMBDA e : e \in {"detach", "release"})

\* C8: once reserve_specific has returned a device, every path out of
\* check(), an error raised inside the cleanup included, has released the
\* device exactly once, after detaching it unless nopoweroff is set.
C8_AlwaysReleased ==
    (reserved /\ cpc \in {"returned", "raised"}) =>
       Cleanup = IF nopoweroff THEN <<"release">> ELSE <<"detach", "release">>

\* the status local of _run_sanity_tests that belongs to probe p
StatusOf(p) ==
    CASE p = "poweron" -> poweron_status
      [] p = "connection" -> connection_status
      [] p = "poweroff" -> poweroff_status

\* the probes run so far are the first ones of ProbeOrder, once each, and
\* a probe that ended without an operator interrupt is followed by the next
ProbesRunInOrder ==
    /\ Len(probes) <= Len(ProbeOrder)
    /\ probes = SubSeq(ProbeOrder, 1, Len(probes))
    /\ \A i \in 1..Len(probes) :
          raisedBy[probes[i]] # "interrupt" =>
             IF i < Len(ProbeOrder)
             THEN Len(probes) > i \/ cpc = ProbeOrder[i + 1]
             ELSE sanity_results # "unset" \/ cpc = "format"
    /\ sanity_results # "unset" => probes = ProbeOrder

C10_InterruptPropagates ==
    interrupted # "none" =>
       /\ cpc \in {"finally", "release", "raised"}
       /\ exc = "KeyboardInterrupt"
       /\ cresult = "none"
       /\ \A i \in DOMAIN events : events[i] # "blacklist"
       /\ interrupted # "image" =>
             /\ probes[Len(probes)] = interrupted
             /\ StatusOf(interrupted) = DefaultStatus
             /\ sanity_results = "unset" /\ image_test_results = "unset"
             /\ wst = "none" /\ ~flashed
       /\ interrupted = "image" =>
             image_test_results = <<TRUE, "Image Test result: Not run">>


\* the calls of _run_tests_on_know_good_image check() made
ImageStepCalls == SelectSeq(events, LAMBDA e : e = "image_step")

\* the four sanity verdicts as they stand in the locals
AllSanityPassed ==
    /\ poweron_status[1] /\ connection_status[1]
    /\ poweroff_status[1] /\ serial_status[1]

\* C11: check() calls the known-good-image step if and only if the
\* power-on, connectivity, power-off and serial-log verdicts all passed;
\* when it does not call it, no image is flashed and the image part of the
\* device result is (True, "Image Test result: Not run").
C11_ImageStepIffSanityPassed ==
    /\ Len(ImageStepCalls) <= 1
    /\ ImageStepCalls # <<>> => image_test_results # "unset"
    /\ image_test_results # "unset" =>
          (ImageStepCalls # <<>> <=> AllSanityPassed)
    /\ ImageStepCalls = <<>> =>
          /\ ~flashed /\ wst = "none"
          /\ image_test_results # "unset" =>
                image_test_results = <<TRUE, "Image Test result: Not run">>
          /\ cresult # "none" =>
                cresult[2][2] = "Image Test result: Not run"

\* the three probes passed but the recorded serial log was empty: check()
\* returned without the image step
C11_Witness ==
    /\ cpc = "returned" /\ record /\ model = "pc"
    /\ \A p \in {"poweron", "connection", "poweroff"} : raisedBy[p] = "ok"
    /\ serial_status = <<FALSE, "Serial log file seems to be empty">>
    /\ ImageStepCalls = <<>> /\ ~flashed
    /\ cresult = <<FALSE, <<sanity_results[2], "Image Test result: Not run">> >>


\* the report carries the note about inverted power cutter settings
HasInvertedNote(report) ==
    report.notes \cap {"inverted_after_poweron", "inverted_after_connection"} # {}

\* C12: the sanity report has the inverted-wiring note if and only if the
\* power-off probe failed and the power-on or the connectivity probe
\* passed; it has the "power off status might be invalid" note if and only
\* if power-on failed and power-off passed; a failed power-off probe makes
\* the sanity result a failure.
C12_WiringNotes ==
    sanity_results # "unset" =>
       /\ HasInvertedNote(sanity_results[2]) <=>
             (~poweroff_status[1] /\ (poweron_status[1] \/ connection_status[1]))
       /\ "poweroff_invalid" \in sanity_results[2].notes <=>
             (~poweron_status[1] /\ poweroff_status[1])
       /\ ~poweroff_status[1] => sanity_results[1] = FALSE

\* power-on and power-off failed while connectivity passed: the note comes
\* from the elif branch and the result is a failure
C12_Witness ==
    /\ raisedBy["poweron"] = "error" /\ raisedBy["connection"] = "ok"
    /\ raisedBy["poweroff"] = "error"
    /\ sanity_results # "unset"
    /\ sanity_results[2].notes = {"inverted_after_connection"}
    /\ sanity_results[1] = FALSE


-----------------------------------------------------------------------------
(* Claims about get_ip *)

\* C13: on every Device variant a call of get_ip returns no address, or an
\* address that passed the SSH probe during that same call.
C13_ReturnedAddressWasProbed ==
    gpc = "returned" => (gret = "None" \/ gret \in probedOk)


-----------------------------------------------------------------------------
(* Claims about the serial recorder *)

\* the output file without its timestamps
Untimed(text) == SelectSeq(text, LAMBDA c : c # "ts")

\* the number of bytes c in text
Count(text, c) == Len(SelectSeq(text, LAMBDA x : x = c))

\* complete newline-terminated lines followed by a partial line
LinesThenPartial(text) == 0 < RFind(text) /\ RFind(text) < Len(text)

\* C14: for an input of complete lines followed by a partial line and a
\* termination signal after all of it was read, the output file holds
\* every complete line once, timestamped and escape-free, and then the
\* whole partial line, escape-free.
C14_LinesThenPartialLine ==
    (rpc = "returned" /\ signal_at_end /\ LinesThenPartial(bytes_read)) =>
       /\ Untimed(output) = StripEscapes(bytes_read)
       /\ Count(output, "ts") = Count(bytes_read, "nl")


-----------------------------------------------------------------------------
(* More claims about check() *)

\* the probes that ended with AFTNotImplementedError
NotImplementedProbes == {p \in DOMAIN raisedBy : raisedBy[p] = "notimpl"}

\* something other than a not-implemented probe failed
RealFailure ==
    \/ \E p \in DOMAIN raisedBy : raisedBy[p] = "error"
    \/ ~serial_status[1]
    \/ (image_test_results # "unset" /\ ~image_test_results[1])

SkippedResult == <<TRUE, "Skipped - produces too many false negatives">>

\* C16 as stated: for an edison the image result of the device check is
\* (True, "Skipped - produces too many false negatives") whatever the
\* sanity probes did, and no image is flashed.
C16_EdisonAlwaysSkipped ==
    (model = "edison" /\ image_test_results # "unset") =>
       (image_test_results = SkippedResult /\ ~flashed /\ wst = "none")

\* C16, amended: for an edison no image is flashed; the image result is
\* (True, "Skipped - produces too many false negatives") when the sanity
\* result is a pass, and (True, "Image Test result: Not run") when it is a
\* failure, because the image step is not called then.
C16_EdisonSkippedAfterSanity ==
    (model = "edison" /\ image_test_results # "unset") =>
       /\ ~flashed /\ wst = "none"
       /\ image_test_results =
             IF sanity_results[1] THEN SkippedResult
             ELSE <<TRUE, "Image Test result: Not run">>

\* an edison whose probes all passed: check() returned a pass with the
\* skip message and nothing was flashed
C16_Witness ==
    /\ model = "edison" /\ cpc = "returned"
    /\ \A p \in DOMAIN raisedBy : raisedBy[p] = "ok"
    /\ cresult = <<TRUE, <<sanity_results[2], SkippedResult[2]>> >>
    /\ ImageStepCalls = <<"image_step">> /\ ~flashed


\* the blacklist_device calls check() made
BlacklistCalls == SelectSeq(events, LAMBDA e : e = "blacklist")

\* C17: check() blacklists the device if and only if the overall result,
\* sanity result AND image result, is a failure: a returned failure means
\* the device was blacklisted, a returned pass that it was not.
C17_BlacklistIffFailure ==
    /\ Len(BlacklistCalls) <= 1
    /\ BlacklistCalls # <<>> =>
          /\ sanity_results # "unset" /\ image_test_results # "unset"
          /\ ~(sanity_results[1] /\ image_test_results[1])
    /\ cpc = "returned" =>
          /\ cresult[1] = (sanity_results[1] /\ image_test_results[1])
          /\ BlacklistCalls # <<>> <=> ~cresult[1]

\* the probes passed, the known-good image was flashed and one of its tests
\* failed: check() returned a failure and the device is blacklisted
C17_Witness ==
    /\ cpc = "returned" /\ sanity_results[1] = TRUE /\ flashed
    /\ image_test_results = <<FALSE, "Image test result: Failure(s)">>
    /\ cresult[1] = FALSE
    /\ BlacklistCalls = <<"blacklist">>


-----------------------------------------------------------------------------
(* Claims about main() *)

\* C18: at the end of the single-device pass of main() the reserved device
\* has been power-detached whatever flashing and testing did, an exception
\* of write_image or of the tester included, unless nopoweroff is set.
C18_DetachedAtEndOfPass ==
    (npc \in {"returned", "raised"} /\ main_device = "reserved" /\ ~main_nopoweroff
        /\ nerr # "CalledProcessError") =>
       \E i \in DOMAIN main_calls : main_calls[i] = "detach"


-----------------------------------------------------------------------------
(* Claims about both retry loops *)

\* C19: in _enter_mode and in _dfu_call a failure inside an attempt (no
\* responsive address, wrong mode, an error of the lease scan or of the
\* remote version probe; device not enumerated, tool timeout) is absorbed
\* and followed by the next attempt: an error leaves the loop only once the
\* attempt budget is used up.
C19_FailuresAbsorbed ==
    /\ (mpc = "raised" /\ merr \in {"IOError", "AFTConnectionError", "LookupError"}) =>
          (merr = "LookupError" /\ tries = EnterModeAttempts)
    /\ (epc = "raised" /\ eerr = "IOError" /\ alt # 0) =>
          (exhausted = alt /\ attempt = attempts)


-----------------------------------------------------------------------------
(* Claims about Device *)

\* C20: two Device objects are equal if and only if their dev_id are equal,
\* whatever their name, model, channel and mutable state; != is the
\* negation of ==; the relation is reflexive, symmetric and transitive.
C20_EqualityByDevId ==
    /\ \A i \in DOMAIN objs, j \in DOMAIN objs :
          /\ DeviceEq(objs[i], objs[j]) <=> objs[i].dev_id = objs[j].dev_id
          /\ DeviceNe(objs[i], objs[j]) <=> ~DeviceEq(objs[i], objs[j])
          /\ DeviceEq(objs[i], objs[i])
          /\ DeviceEq(objs[i], objs[j]) => DeviceEq(objs[j], objs[i])
          /\ \A k \in DOMAIN objs :
                (DeviceEq(objs[i], objs[j]) /\ DeviceEq(objs[j], objs[k])) =>
                   DeviceEq(objs[i], objs[k])
    /\ qa # 0 =>
          /\ eq_result = (objs[qa].dev_id = objs[qb].dev_id)
          /\ ne_result = ~eq_result

\* two objects that share nothing but their dev_id compared equal
C20_Witness ==
    /\ qa # 0 /\ qa # qb
    /\ objs[qa].dev_id = objs[qb].dev_id
    /\ objs[qa].name # objs[qb].name /\ objs[qa].model # objs[qb].model
    /\ objs[qa].channel # objs[qb].channel /\ objs[qa].dev_ip # objs[qb].dev_ip
    /\ eq_result = TRUE /\ ne_result = FALSE


-----------------------------------------------------------------------------
(* Claims about the known-good-image worker *)

\* the worker process has been started and has not ended
WorkerAlive == wst \in {"running", "flashing", "testing", "flushing", "blocked"}

\* C21: while the known-good-image worker is running the parent does not
\* touch the device: detach and release happen only after the worker has
\* ended, also when an operator interrupt arrives during the join.
C21_NoCleanupWhileWorkerRuns ==
    [][Cleanup' # Cleanup => ~WorkerAlive]_vars


\* C22: when the worker ends without publishing a result, the image step
\* returns (False, message), check() runs its cleanup and returns, and the
\* device is blacklisted.
C22_SilentWorkerIsFailure ==
    (wst = "died" /\ interrupted = "none" /\ cpc \in {"finally", "release", "results", "returned", "raised"}) =>
       /\ image_test_results = <<FALSE, "No results from test run">>
       /\ cpc # "raised"
       /\ cpc = "returned" =>
             /\ Cleanup = IF nopoweroff THEN <<"release">> ELSE <<"detach", "release">>
             /\ cresult[1] = FALSE
             /\ BlacklistCalls = <<"blacklist">>


-----------------------------------------------------------------------------
(* Claims about EdisonDevice.write_image *)

\* the statements of write_image and _flash_image before the first DFU call
Preparation == <<"mount", "usbnet", "sshkey", "unmount", "flash_reboot">>

\* C23: write_image goes through mount, USB networking, SSH key, unmount and
\* one power-cycle in this order, then through the 20 DFU targets in the
\* order of the flash sequence, each step only after the one before it
\* succeeded; True is returned only after a successful rootfs DFU call.
C23_FixedFlashOrder ==
    [][/\ \A i \in 1..(Len(Preparation) - 1) :
             (epc = Preparation[i] /\ epc' # epc) =>
                 epc' \in {Preparation[i + 1], "raised", "exited"}
       /\ (epc = "flash_reboot" /\ epc' = "dfu_while") =>
             (alt' = 1 /\ ~mounted)
       /\ alt' # alt =>
             /\ alt' = alt + 1
             /\ alt > 0 => status = "zero"
       /\ (eresult' = "True" /\ eresult # "True") =>
             /\ FlashSequence[alt][1] = "rootfs"
             /\ alt = 20
             /\ status = "zero"]_vars


-----------------------------------------------------------------------------
(* More claims about the serial recorder *)

\* the positions of the output file at which a line starts
LineStarts(text) ==
    {i \in 1..Len(text) : text[i] # "ts" /\ (i = 1 \/ text[i - 1] = "nl")}

\* C24: every line written to the output file, the first one included,
\* is prefixed with a timestamp.
C24_EveryLineStamped ==
    /\ LineStarts(output) = {}
    /\ output # <<>> => output[1] = "ts"

\* C25: the termination flag, once set, is never cleared, and record()
\* returns after it under every behaviour of the port.
C25_ReturnsAfterFlag ==
    /\ [][TERMINATE_FLAG => TERMINATE_FLAG']_vars
    /\ [](TERMINATE_FLAG => <>(rpc = "returned"))

\* C26: the text batches taken so far followed by the retained buffer are
\* all the bytes read so far.
C26_NothingLostOrDuplicated ==
    rpc \in {"read", "except", "batch", "flag"} =>
        taken \o read_buffer = bytes_read

-----------------------------------------------------------------------------
(* Claims about PCDevice.write_image *)

\* C28: the remote steps of write_image come in one order: mount of the
\* exported image, block copy, partprobe, sync, udev trigger, udev settle,
\* udev stop, then the commands of the key installation; none of them is
\* issued before service mode was verified, and none when mode entry fails.
C28_RemoteStepOrder ==
    LET flashing == <<"mount nfs", "bmaptool copy", "partprobe", "sync",
                      "udevadm trigger", "udevadm settle",
                      "udevadm control -S">>
        n == IF Len(remote) < Len(flashing) THEN Len(remote) ELSE Len(flashing)
    IN  /\ SubSeq(remote, 1, n) = SubSeq(flashing, 1, n)
        /\ \A i \in (Len(flashing) + 1)..Len(remote) :
               remote[i] \notin {"mount nfs", "bmaptool copy", "partprobe",
                                 "udevadm trigger", "udevadm settle",
                                 "udevadm control -S"}
        /\ remote # <<>> =>
               /\ mpc = "returned" /\ mode = "service"
               /\ verifiedAt = tries /\ tries >= 1
               /\ dev_ip = ip_address /\ dev_ip \in Addresses
        /\ mpc # "returned" => remote = <<>>
        /\ (wpc = "raised" /\ mpc = "raised") => (remote = <<>> /\ werr = merr)
        /\ wpc = "done" => Len(remote) > Len(flashing) + 1

\* C28 witness: write_image has returned after a mode entry that needed
\* more than one attempt
C28_Witness ==
    /\ wpc = "done" /\ tries > 1 /\ Len(remote) > 7
    /\ remote[Len(remote)] = "umount"

\* C29: when _install_tester_public_key returns, every filesystem it
\* mounted on the device has been unmounted.
C29_EveryMountUnmounted ==
    wpc = "done" => mounts = {}


-----------------------------------------------------------------------------
(* Claims about EdisonDevice._recovery_flash *)

\* C30: one call of _recovery_flash runs the recovery loader tool at most
\* 10 times, and never again after a run that succeeded.
C30_AtMostTenLoaderRuns ==
    /\ rec_calls <= 10
    /\ rec_status = "zero" => xpc = "returned"


-----------------------------------------------------------------------------
(* More claims about the Edison flashing path *)

\* C32: in every attempt of _dfu_call the DFU tool is started only after
\* the device was seen on its USB path in that attempt; when it was not
\* seen, the call ends with IOError and the tool is not started.
C32_ToolOnlyAfterEnumeration ==
    /\ [](epc = "dfu_popen" => enumerated)
    /\ [][/\ invocations' > invocations => (epc = "dfu_popen" /\ enumerated)
          /\ (epc = "dfu_wait" /\ epc' # epc /\ ~enumerated') =>
                /\ epc' = "raised" /\ eerr' = "IOError"
                /\ invocations' = invocations]_vars

\* C32 witness: the second attempt of a call ended because the device did
\* not enumerate, after one run of the tool in the first attempt
C32_Witness ==
    /\ epc = "raised" /\ eerr = "IOError" /\ ~enumerated
    /\ attempt = 1 /\ invocations = 1

\* C38: the image file mounted by write_image is unmounted before flashing
\* starts and whenever the call has ended, also when an injection step
\* raised.
C38_ImageUnmountedOnEveryPath ==
    epc \notin {"usbnet", "sshkey", "unmount"} => ~mounted


-----------------------------------------------------------------------------
(* More claims about get_ip *)

\* the <ip> fields of the records that contain the device id, in file order
RECURSIVE IpFields(_)
IpFields(lines) ==
    IF lines = <<>> THEN <<>>
    ELSE IF ContainsDevId(Head(lines))
         THEN <<Head(lines)[2]>> \o IpFields(Tail(lines))
         ELSE IpFields(Tail(lines))

\* C34: for records '<mac> <ip> <hostname> <domain>' PCDevice.get_ip probes
\* the <ip> field of the records that contain the device id, in file order,
\* and caches and returns the first one that answers the SSH probe, or
\* returns no address when none answers.
C34_FirstAnsweringIp ==
    (gpc = "returned" /\ variant = "pc") =>
        LET ips == IpFields(leases)
            answering == {i \in DOMAIN ips : ips[i] \in reachable}
            first == CHOOSE i \in answering : \A j \in answering : i <= j
        IN  IF answering = {}
            THEN gret = "None" /\ probed = ips
            ELSE /\ gret = ips[first] /\ self_dev_ip = gret
                 /\ probed = SubSeq(ips, 1, first)


-----------------------------------------------------------------------------
(* Claims about the order of release and blacklisting *)

\* C35: a device that fails its check is blacklisted before it is released
\* to the reservation manager.
C35_BlacklistedBeforeRelease ==
    /\ \A i, j \in DOMAIN events :
           (events[i] = "release" /\ events[j] = "blacklist") => j < i
    /\ (cpc = "returned" /\ ~cresult[1]) =>
           \E j \in DOMAIN events : events[j] = "blacklist"


-----------------------------------------------------------------------------
(* Claims about the results queue of the known-good-image worker *)

\* C36: once the worker has put its result on the queue the parent's join
\* cannot block for ever, whatever the size of the result (the worker can
\* end or the join can return), and the parent then finds that result on
\* the queue and does not report "No results from test run".
C36_JoinCompletesAfterPut ==
    /\ (cpc = "join" /\ results_queue # <<>>) =>
           ENABLED (WorkerExit \/ JoinCompletes)
    /\ (cpc = "read_queue" /\ wst = "exited") => results_queue # <<>>


-----------------------------------------------------------------------------
(* More claims about _enter_mode and PCDevice.write_image *)

\* C33: in each attempt of _enter_mode the lease source is polled at most
\* 24 times; polling stops at the first poll that yields a responsive
\* address, which goes to the mode verification; after 24 polls without an
\* address the attempt has failed and the next one starts with a
\* power-cycle.
C33_PollsPerAttempt ==
    /\ [](polls <= 24)
    /\ [][/\ (mpc = "poll" /\ mpc' = "verify") =>
                /\ ip_address' \in Addresses /\ dev_ip' = ip_address'
                /\ polls' = polls + 1
          /\ (mpc = "poll" /\ mpc' = "poll") =>
                (polls' = polls + 1 /\ dev_ip' = dev_ip)
          /\ mpc' = "verify" => mpc = "poll"
          /\ (mpc = "poll" /\ mpc' = "for") =>
                (polls = 24 /\ ip_address' = "None" /\ verifiedAt' = 0)
          /\ (mpc = "for" /\ mpc' = "power_cycle") => tries' = tries + 1
          /\ (mpc = "pem") => polls' = 0]_vars

\* C33 witness: the second attempt has started with its power-cycle after
\* a first attempt of 24 polls without an address
C33_Witness ==
    /\ mpc = "pem" /\ tries = 2 /\ polls = 24 /\ powerCycles = 2
    /\ ip_address = "None"

\* C37: while _flash_image or _install_tester_public_key runs inside
\* write_image, dev_ip is set and is the address that passed the
\* service-mode verification of the successful _enter_mode attempt.
C37_FlashGoesToVerifiedAddress ==
    (wpc \in {"flash", "mount", "key", "umount"} \/ remote # <<>>) =>
        /\ dev_ip # "None" /\ dev_ip \in Addresses
        /\ dev_ip = ip_address
        /\ mode = "service" /\ mpc = "returned" /\ verifiedAt = tries

\* C37 witness: the key installation runs on an address found in a second
\* attempt
C37_Witness ==
    /\ wpc = "key" /\ tries = 2 /\ dev_ip = "ip2" /\ Len(remote) > 7


-----------------------------------------------------------------------------
(* Claims about _get_device_args *)

\* the arguments the scan is to give to its k-th device
ExpectedArgs(k) ==
    [device |-> dev_configs[k], record |-> dev_configs[k] \in with_port]

\* C39: the argument objects built by _get_device_args are independent:
\* the caller's args never change, every device has an object of its own
\* that keeps its device and record while other devices are prepared and
\* workers run, and record is true exactly for a device whose settings
\* declare a serial port.
C39_DeviceArgsIndependent ==
    /\ heap # <<>> => heap[1] = caller_args
    /\ \A k \in DOMAIN thread_args :
          /\ thread_args[k] # 1
          /\ heap[thread_args[k]] = ExpectedArgs(k)
          /\ \A l \in DOMAIN thread_args : l # k => thread_args[l] # thread_args[k]
    /\ \A k \in DOMAIN seen : seen[k] = ExpectedArgs(k)
    /\ (apc \in {"start"} /\ device_args # 0) =>
          heap[device_args] = ExpectedArgs(ai)

\* C39 witness: two workers have read their arguments, one device with a
\* serial port and one without, for a caller whose args had record set
C39_Witness ==
    /\ apc = "join" /\ Len(thread_args) >= 2 /\ caller_args.record
    /\ DOMAIN seen = DOMAIN thread_args
    /\ seen[1].record /\ ~seen[2].record


-----------------------------------------------------------------------------
(* Claims about the disabled recovery path *)

\* C31: no run of EdisonDevice.write_image, whatever its DFU calls do, runs
\* the recovery loader tool or enters _recovery_flash.
C31_RecoveryNeverRunByWriteImage ==
    /\ rec_calls = 0 /\ rec_reboots = 0
    /\ xpc = "idle"

\* C31 witness: write_image has ended because a DFU call used up its
\* attempts, and the recovery loader tool was not run
C31_Witness ==
    /\ epc = "raised" /\ eerr = "IOError" /\ exhausted > 0
    /\ attempt = attempts /\ rec_calls = 0

=============================================================================
